---- MODULE Spec2Model ----
(***************************************************************************)
(* Block tree store, Markdown codec and file synchronization engine of     *)
(* ai-outline-notes.                                                       *)
(*                                                                         *)
(* Text is modelled at character level: a string is a sequence of          *)
(* one-character symbols ("a", " ", "\n", "-", "^", ...).  A block id is a *)
(* non-empty sequence of symbols; the null parent is the empty sequence    *)
(* (the code tests parents with !b.parentId, which the empty string also   *)
(* satisfies).  Block timestamps are never read by the modelled code and   *)
(* are left out.                                                           *)
(***************************************************************************)
EXTENDS Integers, Sequences, FiniteSets, TLC

VARIABLES
  blocks,     \* db.blocks: block id -> [content, parentId, pageId, order, collapsed]
  pages,      \* db.pages: page id -> [title, type, updatedAt]
  uuid,       \* number of crypto.randomUUID() results handed out so far
  files,      \* the vault: <<directory, file name>> -> [fm, body, mtime]
  fileCache,  \* SyncEngine.fileCache: <<directory, file name>> -> lastModified
  now,        \* the clock behind Date.now() and File.lastModified
  dirs,       \* the directories of the vault that exist
  vault,      \* SyncEngine.vaultHandle is set
  visits,     \* db.pageVisits: visit id -> [pageId, visitedAt]
  ret,        \* the values the last call that returns one returned, as a sequence
  timers,     \* page id -> number of pending timeouts of triggerPageSync
  procs,      \* the calls in progress: name -> position and local variables
  parsed,     \* the result of the last markdownToPage call
  hist,       \* what the properties need of the past: see InitHist
  last,       \* the last completed operation: [op, id, arg, ok]
  prev        \* db.blocks as it was when the last operation started

vars == <<blocks, pages, uuid, files, fileCache, now, dirs, vault, visits, ret,
          timers, procs, parsed, hist, last, prev>>

\* What the block operations leave alone.
ioVars == <<pages, files, fileCache, now, dirs, vault, visits, ret, procs, parsed>>

envVars == <<ioVars, hist>>

(***************************************************************************)
(* Bounds of the model.                                                    *)
(***************************************************************************)
MaxUuid == 3

\* Sibling orders grow without bound under repeated outdent; operations whose
\* result would exceed this order are not taken.
MaxOrderVal == 3

\* The clock stops here: no file is written later.
MaxTime == 5

NullId == <<>>

\* crypto.randomUUID(): the k-th fresh identifier.
UUID(k) == <<ToString(k)>>

PageIds == {"p1", "p2"}

(***************************************************************************)
(* Helpers over a block table bs.                                          *)
(***************************************************************************)
\* The order IndexedDB returns primary keys in: strings compare by code
\* unit, here by position in Alphabet, lexicographically.
Alphabet == <<"\n", " ", "-", "1", "2", "3", "4", "5", "6", "7", "8", "9", "^", "a", "b">>

SymRank(c) == CHOOSE i \in 1..Len(Alphabet) : Alphabet[i] = c

RECURSIVE IdLess(_, _)
IdLess(a, b) ==
  IF a = <<>> THEN b # <<>>
  ELSE IF b = <<>> THEN FALSE
  ELSE IF Head(a) = Head(b) THEN IdLess(Tail(a), Tail(b))
  ELSE SymRank(Head(a)) < SymRank(Head(b))

\* array.sort((a, b) => a.order - b.order) over rows read in key order
\* (the sort is stable, so equal orders stay in key order).
RECURSIVE SortByOrder(_, _)
SortByOrder(bs, S) ==
  IF S = {} THEN <<>>
  ELSE LET m == CHOOSE i \in S : \A j \in S \ {i} :
                   \/ bs[i].order < bs[j].order
                   \/ (bs[i].order = bs[j].order /\ IdLess(i, j))
       IN  <<m>> \o SortByOrder(bs, S \ {m})

\* db.blocks.where({ parentId }).toArray()
ChildrenOf(bs, id) == {i \in DOMAIN bs : bs[i].parentId = id}

\* allBlocks.filter(b => b.parentId === block.parentId) within one page
SiblingsOf(bs, pageId, parentId) ==
  {i \in DOMAIN bs : bs[i].pageId = pageId /\ bs[i].parentId = parentId}

IndexOf(seq, x) == IF \E i \in 1..Len(seq) : seq[i] = x
                   THEN CHOOSE i \in 1..Len(seq) : seq[i] = x
                   ELSE 0

MaxOrder(bs, S) == CHOOSE n \in {bs[i].order : i \in S} :
                     \A i \in S : bs[i].order <= n

(***************************************************************************)
(* Strings.                                                                *)
(***************************************************************************)
\* \s of the regular expressions and of String.trim()
IsSpace(c) == c \in {" ", "\n"}

\* [a-zA-Z0-9-] of the block id pattern
IsIdChar(c) == c \notin {" ", "\n", "^"}

RECURSIVE TrimStart(_)
TrimStart(s) == IF s # <<>> /\ IsSpace(Head(s)) THEN TrimStart(Tail(s)) ELSE s

RECURSIVE TrimEnd(_)
TrimEnd(s) ==
  IF s # <<>> /\ IsSpace(s[Len(s)]) THEN TrimEnd(SubSeq(s, 1, Len(s) - 1)) ELSE s

Trim(s) == TrimEnd(TrimStart(s))

\* s.split('\n')
RECURSIVE Split(_)
Split(s) ==
  IF \A i \in 1..Len(s) : s[i] # "\n" THEN <<s>>
  ELSE LET k == CHOOSE i \in 1..Len(s) :
                  s[i] = "\n" /\ \A j \in 1..(i - 1) : s[j] # "\n"
       IN  <<SubSeq(s, 1, k - 1)>> \o Split(SubSeq(s, k + 1, Len(s)))

\* lines.join('\n')
RECURSIVE Join(_)
Join(lines) ==
  IF lines = <<>> THEN <<>>
  ELSE IF Len(lines) = 1 THEN lines[1]
  ELSE lines[1] \o <<"\n">> \o Join(Tail(lines))

\* ' '.repeat(n)
Spaces(n) == [i \in 1..n |-> " "]

(***************************************************************************)
(* markdownConverter: serialization.  A file is a record [fm, body]: fm is *)
(* the parsed value of each frontmatter key (id, title, type, updated; the *)
(* empty value stands for a key that is missing or empty, which the code   *)
(* treats alike with ||), body is the text after the closing "---\n".      *)
(***************************************************************************)
IndentSize == 2

\* The physical lines of one block at a depth (processBlock, lines 62-80).
BlockLines(content, id, depth) ==
  LET indent == Spaces(depth * IndentSize)
      blockId == <<" ", "^">> \o id
      contentLines == Split(content)
      n == Len(contentLines)
  IN  [k \in 1..n |->
         IF k = 1
         THEN indent \o <<"-", " ">> \o contentLines[k]
                \o (IF n = 1 THEN blockId ELSE <<>>)
         ELSE IF k = n
         THEN indent \o <<" ", " ">> \o contentLines[k] \o blockId
         ELSE indent \o <<" ", " ">> \o contentLines[k]]

\* processBlock: the block's lines, then its children's unless collapsed.
RECURSIVE processBlock(_, _, _)
processBlock(bs, id, depth) ==
  LET RECURSIVE Each(_)
      Each(kids) ==
        IF kids = <<>> THEN <<>>
        ELSE processBlock(bs, Head(kids), depth + 1) \o Each(Tail(kids))
  IN  BlockLines(bs[id].content, id, depth)
        \o (IF ~bs[id].collapsed
            THEN Each(SortByOrder(bs, ChildrenOf(bs, id)))
            ELSE <<>>)

\* blocksToMarkdown over the rows of one page.
blocksToMarkdown(bs) ==
  LET rootBlocks == SortByOrder(bs, {i \in DOMAIN bs : bs[i].parentId = NullId})
      RECURSIVE Each(_)
      Each(roots) ==
        IF roots = <<>> THEN <<>>
        ELSE processBlock(bs, Head(roots), 0) \o Each(Tail(roots))
  IN  Join(Each(rootBlocks))

\* db.blocks.where({ pageId }).toArray()
PageBlocks(bs, pageId) ==
  [i \in {j \in DOMAIN bs : bs[j].pageId = pageId} |-> bs[i]]

\* pageToMarkdown: `${frontmatter}\n${content}`.trim() + '\n'
pageToMarkdown(pageId, page, bs) ==
  LET content == TrimEnd(blocksToMarkdown(bs))
  IN  [fm   |-> [id |-> pageId, title |-> page.title, type |-> page.type,
                 updated |-> page.updatedAt],
       body |-> IF content = <<>> THEN <<>> ELSE <<"\n">> \o content \o <<"\n">>]

(***************************************************************************)
(* markdownConverter: parsing.                                             *)
(***************************************************************************)
\* line.match(/^(\s*)- (.*)$/): the number of leading blanks.
LeadingSpaces(line) == Len(line) - Len(TrimStart(line))

IsListItem(line) ==
  LET n == LeadingSpaces(line)
  IN  Len(line) >= n + 2 /\ line[n + 1] = "-" /\ line[n + 2] = " "

\* blockContent.match(/\s*\^([a-zA-Z0-9-]+)\s*$/) on trimmed text: the
\* position of the "^" that is followed by id characters only, or 0.
IdMarkerAt(text) ==
  LET hits == {k \in 1..Len(text) :
                 /\ text[k] = "^"
                 /\ k < Len(text)
                 /\ \A j \in (k + 1)..Len(text) : IsIdChar(text[j])}
  IN  IF hits = {} THEN 0 ELSE CHOOSE k \in hits : TRUE

\* flushCurrentBlock on the parser state st =
\*   [blocks, ids, stack, cur, depth, used]
\* blocks: the rows parsed so far, ids: their ids, stack: blockStack,
\* cur: currentBlockLines, depth: currentDepth, used: UUIDs taken.
flushCurrentBlock(st, pageId, uuid0) ==
  IF st.cur = <<>> THEN st
  ELSE
    LET blockContent == Trim(Join(st.cur))
    IN
    IF blockContent = <<>> THEN st
    ELSE
      LET k == IdMarkerAt(blockContent)
          cleanContent == IF k > 0 THEN Trim(SubSeq(blockContent, 1, k - 1))
                          ELSE blockContent
          blockId == IF k > 0 THEN SubSeq(blockContent, k + 1, Len(blockContent))
                     ELSE UUID(uuid0 + st.used + 1)
          below == {i \in 1..Len(st.stack) : st.stack[i].depth < st.depth}
          parentId == IF below = {} THEN NullId
                      ELSE st.stack[CHOOSE i \in below : \A j \in below : j <= i].id
          order == Cardinality({i \in 1..Len(st.blocks) :
                                  st.blocks[i].parentId = parentId})
          block == [id |-> blockId, content |-> cleanContent,
                    parentId |-> parentId, pageId |-> pageId, order |-> order,
                    collapsed |-> FALSE]
          keep == IF below = {} THEN 0
                  ELSE CHOOSE i \in below : \A j \in below : j <= i
          popped == SubSeq(st.stack, 1, keep)
      IN  [st EXCEPT !.blocks = Append(@, block),
                     !.stack = Append(popped, [id |-> blockId, depth |-> st.depth]),
                     !.cur = <<>>,
                     !.used = @ + (IF k > 0 THEN 0 ELSE 1)]

\* parseBlocks: the rows of the body, in file order, and the UUIDs taken.
RECURSIVE parseLines(_, _, _, _)
parseLines(lines, st, pageId, uuid0) ==
  IF lines = <<>> THEN flushCurrentBlock(st, pageId, uuid0)
  ELSE
    LET line == Head(lines)
    IN
    IF Trim(line) = <<>> THEN parseLines(Tail(lines), st, pageId, uuid0)
    ELSE IF IsListItem(line)
    THEN LET f == flushCurrentBlock(st, pageId, uuid0)
             n == LeadingSpaces(line)
         IN  parseLines(Tail(lines),
                        [f EXCEPT !.depth = n \div 2,
                                  !.cur = Append(@, SubSeq(line, n + 3, Len(line)))],
                        pageId, uuid0)
    ELSE parseLines(Tail(lines), [st EXCEPT !.cur = Append(@, Trim(line))],
                    pageId, uuid0)

parseBlocksFlat(content, pageId, uuid0) ==
  LET st == parseLines(Split(content),
                       [blocks |-> <<>>, stack |-> <<>>, cur |-> <<>>, depth |-> 0,
                        used |-> 0],
                       pageId, uuid0)
  IN  [st EXCEPT !.blocks = [i \in 1..Len(@) |-> [@[i] EXCEPT !.parentId = NullId]]]

parseBlocks(content, pageId, uuid0) ==
  parseLines(Split(content),
             [blocks |-> <<>>, stack |-> <<>>, cur |-> <<>>, depth |-> 0, used |-> 0],
             pageId, uuid0)

\* filenameToTitle: drop ".md", "-" becomes " ".
filenameToTitle(filename) ==
  LET base == IF filename # <<>> /\ filename[Len(filename)] = ".md"
              THEN SubSeq(filename, 1, Len(filename) - 1) ELSE filename
  IN  [i \in 1..Len(base) |-> IF base[i] = "-" THEN " " ELSE base[i]]

\* markdownToPage: [page, blocks, used]; time is Date.now(), uuid0 the UUIDs
\* handed out before the call.
markdownToPage(file, filename, time, uuid0) ==
  LET fresh == file.fm.id = ""
      pageId == IF fresh THEN ToString(uuid0 + 1) ELSE file.fm.id
      u1 == IF fresh THEN uuid0 + 1 ELSE uuid0
      body == parseBlocks(file.body, pageId, u1)
  IN  [page |-> [id |-> pageId,
                 title |-> IF file.fm.title # <<>> THEN file.fm.title
                           ELSE filenameToTitle(filename),
                 type |-> IF file.fm.type # "" THEN file.fm.type ELSE "note",
                 updatedAt |-> IF file.fm.updated # 0 THEN file.fm.updated ELSE time],
       blocks |-> body.blocks,
       used |-> (u1 - uuid0) + body.used]

\* The parsed rows as a table keyed by id (a later row with the same id
\* does not replace an earlier one).
RowsToTable(rows) ==
  LET ids == {rows[i].id : i \in 1..Len(rows)}
      first(id) == CHOOSE i \in 1..Len(rows) :
                     rows[i].id = id /\ \A j \in 1..(i - 1) : rows[j].id # id
  IN  [id \in ids |-> [content |-> rows[first(id)].content,
                       parentId |-> rows[first(id)].parentId,
                       pageId |-> rows[first(id)].pageId,
                       order |-> rows[first(id)].order,
                       collapsed |-> rows[first(id)].collapsed]]

(***************************************************************************)
(* Block operations (blockUtils).  Each returns the new block table.       *)
(***************************************************************************)
\* createBlock with order omitted: max(sibling.order) + 1, or 0.
createBlock(bs, id, pageId, content, parentId) ==
  LET siblings == SiblingsOf(bs, pageId, parentId)
      order == IF siblings # {} THEN MaxOrder(bs, siblings) + 1 ELSE 0
  IN  [i \in DOMAIN bs \cup {id} |->
         IF i = id
         THEN [content |-> content, parentId |-> parentId, pageId |-> pageId,
               order |-> order, collapsed |-> FALSE]
         ELSE bs[i]]

\* updateBlock: content only.
updateBlock(bs, id, content) ==
  IF id \notin DOMAIN bs THEN bs
  ELSE [bs EXCEPT ![id].content = content]

\* deleteBlock without the recursion: the block and its direct children only.
deleteBlockShallow(bs, id) ==
  IF id \notin DOMAIN bs THEN bs
  ELSE [i \in DOMAIN bs \ ({id} \cup ChildrenOf(bs, id)) |-> bs[i]]

\* deleteBlock: for each child, deleteBlock(child); then delete the block.
RECURSIVE deleteBlock(_, _)
deleteBlock(bs, id) ==
  IF id \notin DOMAIN bs THEN bs
  ELSE LET RECURSIVE DelAll(_, _)
           DelAll(b, kids) ==
             IF kids = <<>> THEN b
             ELSE DelAll(deleteBlock(b, Head(kids)), Tail(kids))
           after == DelAll(bs, SortByOrder(bs, ChildrenOf(bs, id)))
       IN  [i \in DOMAIN after \ {id} |-> after[i]]

\* moveBlock with db.blocks.put in the place of update: a row is made for
\* an id that has none.
moveBlockPut(bs, id, newParentId, newOrder) ==
  [i \in DOMAIN bs \cup {id} |->
     IF i # id THEN bs[i]
     ELSE IF id \in DOMAIN bs
     THEN [bs[id] EXCEPT !.parentId = newParentId, !.order = newOrder]
     ELSE [content |-> <<>>, parentId |-> newParentId, pageId |-> "",
           order |-> newOrder, collapsed |-> FALSE]]

\* moveBlock: db.blocks.update(blockId, {parentId, order}); no check at all.
moveBlock(bs, id, newParentId, newOrder) ==
  IF id \notin DOMAIN bs THEN bs
  ELSE [bs EXCEPT ![id].parentId = newParentId, ![id].order = newOrder]

\* indentBlock: the result table, and whether it returned true.
indentOk(bs, id) ==
  /\ id \in DOMAIN bs
  /\ IndexOf(SortByOrder(bs, SiblingsOf(bs, bs[id].pageId, bs[id].parentId)), id) > 1

\* indentBlock putting the block first among its new siblings.
indentBlockFirst(bs, id) ==
  IF ~indentOk(bs, id) THEN bs
  ELSE LET siblings == SortByOrder(bs, SiblingsOf(bs, bs[id].pageId, bs[id].parentId))
       IN  moveBlock(bs, id, siblings[IndexOf(siblings, id) - 1], 0)

indentBlock(bs, id) ==
  IF ~indentOk(bs, id) THEN bs
  ELSE LET siblings == SortByOrder(bs, SiblingsOf(bs, bs[id].pageId, bs[id].parentId))
           previousSibling == siblings[IndexOf(siblings, id) - 1]
           newOrder == Cardinality(ChildrenOf(bs, previousSibling))
       IN  moveBlock(bs, id, previousSibling, newOrder)

\* outdentBlock: the result table, and whether it returned true.
outdentOk(bs, id) ==
  /\ id \in DOMAIN bs
  /\ bs[id].parentId # NullId
  /\ bs[id].parentId \in DOMAIN bs

\* outdentBlock giving the block its parent's order.
outdentBlockOntoParent(bs, id) ==
  IF ~outdentOk(bs, id) THEN bs
  ELSE moveBlock(bs, id, bs[bs[id].parentId].parentId, bs[bs[id].parentId].order)

\* outdentBlock without the loop that makes room after the parent.
outdentBlockUnshifted(bs, id) ==
  IF ~outdentOk(bs, id) THEN bs
  ELSE moveBlock(bs, id, bs[bs[id].parentId].parentId, bs[bs[id].parentId].order + 1)

outdentBlock(bs, id) ==
  IF ~outdentOk(bs, id) THEN bs
  ELSE LET parent == bs[id].parentId
           parentSiblings ==
             SortByOrder(bs, SiblingsOf(bs, bs[id].pageId, bs[parent].parentId))
           parentIndex == IndexOf(parentSiblings, parent)
           later == {parentSiblings[i] : i \in (parentIndex + 1)..Len(parentSiblings)}
           shifted == [i \in DOMAIN bs |->
                         IF i \in later THEN [bs[i] EXCEPT !.order = @ + 1] ELSE bs[i]]
       IN  moveBlock(shifted, id, bs[parent].parentId, bs[parent].order + 1)

\* clearTimeout of the pending timeout, then setTimeout: a debounce.
debouncedPageSync(t, pageId) == [t EXCEPT ![pageId] = 1]

\* triggerPageSync(pageId): one more timeout, whatever is pending already.
triggerPageSync(t, pageId) == [t EXCEPT ![pageId] = @ + 1]

\* The timeouts deleteBlock sets: one per deleted block, each recursive
\* call ending in triggerPageSync(block.pageId).
RECURSIVE deleteTimers(_, _, _)
deleteTimers(t, bs, id) ==
  IF id \notin DOMAIN bs THEN t
  ELSE LET RECURSIVE Kids(_, _)
           Kids(tt, kids) ==
             IF kids = <<>> THEN tt
             ELSE Kids(deleteTimers(tt, bs, Head(kids)), Tail(kids))
       IN  triggerPageSync(Kids(t, SortByOrder(bs, ChildrenOf(bs, id))), bs[id].pageId)

toggleBlockCollapseOn(bs, id) ==
  IF id \notin DOMAIN bs THEN bs
  ELSE [bs EXCEPT ![id].collapsed = TRUE]

toggleBlockCollapse(bs, id) ==
  IF id \notin DOMAIN bs THEN bs
  ELSE [bs EXCEPT ![id].collapsed = ~@]

(***************************************************************************)
(* fileOperations and SyncEngine, each as a function of the world          *)
(* w = [blocks, pages, files, fileCache, now, uuid, dirs].  A write of a   *)
(* file happens one clock tick after everything before it.                 *)
(***************************************************************************)
\* generateFilename: daily pages keep the title; for notes the characters
\* /\\:*?"<>| are removed and each run of blanks becomes one "-".
generateFilename(page) ==
  IF page.type = "daily" THEN page.title \o <<".md">>
  ELSE LET kept == SelectSeq(page.title,
                     LAMBDA c : c \notin {"/", "\\", ":", "*", "?", "\"", "<", ">", "|"})
           RECURSIVE Dash(_)
           Dash(t) ==
             IF t = <<>> THEN <<>>
             ELSE IF IsSpace(Head(t))
             THEN <<"-">> \o Dash(TrimStart(t))
             ELSE <<Head(t)>> \o Dash(Tail(t))
       IN  Dash(kept) \o <<".md">>

getPageDirectory(page) == IF page.type = "daily" THEN "journals" ELSE "pages"

PathOf(page) == <<getPageDirectory(page), generateFilename(page)>>

World ==
  [blocks |-> blocks, pages |-> pages, files |-> files, fileCache |-> fileCache,
   now |-> now, uuid |-> uuid, dirs |-> dirs]

Becomes(w) ==
  /\ blocks' = w.blocks
  /\ pages' = w.pages
  /\ files' = w.files
  /\ fileCache' = w.fileCache
  /\ now' = w.now
  /\ uuid' = w.uuid
  /\ dirs' = w.dirs

\* db.blocks.bulkAdd(rows) outside a transaction (Dexie): every row whose
\* key is free is stored, and the call rejects if some key was taken.
RECURSIVE bulkAdd(_, _)
bulkAdd(bs, rows) ==
  IF rows = <<>> THEN [blocks |-> bs, ok |-> TRUE]
  ELSE LET r == Head(rows)
       IN  IF r.id \in DOMAIN bs
           THEN [bulkAdd(bs, Tail(rows)) EXCEPT !.ok = FALSE]
           ELSE bulkAdd(bs @@ (r.id :> [content |-> r.content,
                                        parentId |-> r.parentId,
                                        pageId |-> r.pageId, order |-> r.order,
                                        collapsed |-> r.collapsed]),
                        Tail(rows))

\* importPageToDatabase: [w, ok]; ok is FALSE when it threw.
importPageToDatabase(w, res) ==
  LET pd == res.page
      pages1 ==
        IF pd.id \in DOMAIN w.pages
        THEN [w.pages EXCEPT ![pd.id] =
                [title |-> IF pd.title # <<>> THEN pd.title ELSE @.title,
                 type |-> IF pd.type # "" THEN pd.type ELSE @.type,
                 updatedAt |-> IF pd.updatedAt # 0 THEN pd.updatedAt ELSE w.now]]
        ELSE w.pages @@
             (pd.id :> [title |-> IF pd.title # <<>> THEN pd.title ELSE <<"untitled">>,
                        type |-> pd.type,
                        updatedAt |-> IF pd.updatedAt # 0 THEN pd.updatedAt ELSE w.now])
      others == [i \in {j \in DOMAIN w.blocks : w.blocks[j].pageId # pd.id}
                   |-> w.blocks[i]]
      added == IF res.blocks # <<>> THEN bulkAdd(others, res.blocks)
               ELSE [blocks |-> others, ok |-> TRUE]
  IN  [w |-> [w EXCEPT !.pages = pages1, !.blocks = added.blocks], ok |-> added.ok]

\* syncToFileSystem in the steps its awaits divide it into, every I/O call
\* succeeding.  exportRead: the page and its blocks as the store holds them.
exportReadNoBlocks(w, pageId) ==
  [pageId |-> pageId, page |-> w.pages[pageId], rows |-> <<>>]

exportRead(w, pageId) ==
  [pageId |-> pageId, page |-> w.pages[pageId], rows |-> PageBlocks(w.blocks, pageId)]

\* The file writePageFile leaves at time t.
writtenFile(text, t) == [fm |-> text.fm, body |-> text.body, mtime |-> t, by |-> "engine"]

\* exportWrite: the directory is made if missing and the file is written.
exportWrite(w, job) ==
  [w EXCEPT
     !.dirs = @ \cup {getPageDirectory(job.page)},
     !.files = (PathOf(job.page)
                  :> writtenFile(pageToMarkdown(job.pageId, job.page, job.rows),
                                 w.now + 1)) @@ @,
     !.now = @ + 1]

\* exportStat: lastModified of the file under the page's name, as it is now.
exportStat(w, job) == w.files[PathOf(job.page)].mtime

\* exportCache: fileCache.set.
exportCache(w, job, modifiedTime) ==
  [w EXCEPT !.fileCache = (PathOf(job.page) :> modifiedTime) @@ @]

exportWritten(w, job) == exportCache(w, job, exportStat(w, job))

exportJob(w, job) == exportWritten(exportWrite(w, job), job)

\* syncToFileSystem with nothing running between its steps.
syncToFileSystem(w, pageId) ==
  IF pageId \notin DOMAIN w.pages THEN w
  ELSE exportJob(w, exportRead(w, pageId))

\* The files of the vault in an order a directory listing can give them:
\* those of pages/ before those of journals/.
RECURSIVE Orderings(_)
Orderings(S) ==
  IF S = {} THEN {<<>>}
  ELSE UNION {{<<x>> \o rest : rest \in Orderings(S \ {x})} : x \in S}

Listings(fs) ==
  {a \o b : a \in Orderings({f \in DOMAIN fs : f[1] = "pages"}),
            b \in Orderings({f \in DOMAIN fs : f[1] = "journals"})}

\* The end of one round of checkDirectoryForChanges: the cache entry is
\* set unless importPageToDatabase threw.
checkCached(key, currentModified, imp) ==
  IF imp.ok THEN [imp.w EXCEPT !.fileCache = (key :> currentModified) @@ @]
  ELSE imp.w

checkImport(w, key, currentModified, res) ==
  checkCached(key, currentModified,
              importPageToDatabase([w EXCEPT !.uuid = @ + res.used], res))

\* The test with >= in the place of >.
fileChangedOrSame(w, key) ==
  key \notin DOMAIN w.fileCache \/ w.files[key].mtime >= w.fileCache[key]

\* The test of checkDirectoryForChanges on one file.
fileChanged(w, key) ==
  key \notin DOMAIN w.fileCache \/ w.files[key].mtime > w.fileCache[key]

\* One round of the loop of checkDirectoryForChanges.
checkFile(w, key) ==
  IF fileChanged(w, key)
  THEN checkImport(w, key, w.files[key].mtime,
                   markdownToPage(w.files[key], key[2], w.now, w.uuid))
  ELSE w

\* checkDirectoryForChanges over the listed files, one after the other.
RECURSIVE checkFiles(_, _)
checkFiles(w, paths) ==
  IF paths = <<>> THEN w
  ELSE checkFiles(checkFile(w, Head(paths)), Tail(paths))

\* checkForChanges: nothing is checked unless both directories exist.
checkForChanges(w, listing) ==
  IF ~({"pages", "journals"} \subseteq w.dirs) THEN w
  ELSE checkFiles(w, listing)

\* readAllPagesFromDirectory of both directories: every file is parsed
\* before the first one is imported.
RECURSIVE readAll(_, _, _)

readNext(res, rest) == [results |-> <<res>> \o rest.results, used |-> res.used + rest.used]

readRest(w, paths, res, u) == readNext(res, readAll(w, Tail(paths), u + res.used))

readAll(w, paths, u) ==
  IF paths = <<>> THEN [results |-> <<>>, used |-> 0]
  ELSE readRest(w, paths, markdownToPage(w.files[Head(paths)], Head(paths)[2], w.now, u), u)

\* The import loop of syncFromFileSystem; failing: the indexes of the
\* results whose import is made to throw by the database.
RECURSIVE importAll(_, _, _, _)
importAll(w, results, k, failing) ==
  IF k > Len(results) THEN w
  ELSE IF k \in failing THEN importAll(w, results, k + 1, failing)
  ELSE importAll(importPageToDatabase(w, results[k]).w, results, k + 1, failing)

\* db.pages.toArray(): the page ids in key order.
PageKeys == <<"1", "2", "3", "4", "5", "6", "7", "8", "9", "p1", "p2">>

PageArray(pgs) == SelectSeq(PageKeys, LAMBDA k : k \in DOMAIN pgs)

\* The export loop of syncDatabaseToFiles; failing: the pages whose write
\* throws.  [w, threw, tried]
RECURSIVE exportAll(_, _, _)
exportAll(w, ids, failing) ==
  IF ids = <<>> THEN [w |-> w, threw |-> FALSE, tried |-> {}]
  ELSE IF Head(ids) \in failing
  THEN [w |-> w, threw |-> TRUE, tried |-> {Head(ids)}]
  ELSE LET rest == exportAll(syncToFileSystem(w, Head(ids)), Tail(ids), failing)
       IN  [rest EXCEPT !.tried = @ \cup {Head(ids)}]

\* syncFromFileSystem; failImports: the files whose import is made to throw.
importRead(w, read, failing) ==
  importAll([w EXCEPT !.uuid = @ + read.used], read.results, 1, failing)

syncFromFileSystem(w, listing, failImports) ==
  importRead([w EXCEPT !.dirs = @ \cup {"pages", "journals"}],
             readAll(w, listing, w.uuid),
             {k \in 1..Len(listing) : listing[k] \in failImports})

\* syncDatabaseToFiles; failExports: the pages whose write throws.
syncDatabaseToFiles(w, failExports) == exportAll(w, PageArray(w.pages), failExports)

fullSyncEnd(listing, w1, out) ==
  [w |-> out.w, threw |-> out.threw,
   imports |-> {listing[k] : k \in 1..Len(listing)},
   exports |-> out.tried, pagesAt |-> DOMAIN w1.pages]

fullSyncExport(listing, w1, failExports) ==
  fullSyncEnd(listing, w1, syncDatabaseToFiles(w1, failExports))

\* fullSync: [w, threw, imports, exports, pagesAt]
fullSync(w, listing, failImports, failExports) ==
  fullSyncExport(listing, syncFromFileSystem(w, listing, failImports), failExports)

(***************************************************************************)
(* The store under sequential use: every operation runs to completion.     *)
(***************************************************************************)
Done(op, id, ok) == last' = [op |-> op, id |-> id, arg |-> NullId, ok |-> ok]

OrdersBounded(bs) == \A i \in DOMAIN bs : bs[i].order <= MaxOrderVal

\* Two note pages exist, created at time 1.
InitPages ==
  ("p1" :> [title |-> <<"x">>, type |-> "note", updatedAt |-> 1])
  @@ ("p2" :> [title |-> <<"y">>, type |-> "note", updatedAt |-> 1])

\* prevFiles: the vault when the last operation started; extEver: a file
\* was written from outside; found, pagesAt: the files and pages the last
\* fullSync found; imports, exports: the ones it attempted; injected: an
\* import or export was made to fail; importedBy: who wrote the file the
\* watcher imported last; edits, runs: per page, the calls of
\* triggerPageSync and the exports their timeouts started, both counted
\* from the last call made with no timeout pending.
InitHist ==
  [prevFiles |-> <<>>, extEver |-> FALSE, found |-> {}, pagesAt |-> {},
   imports |-> {}, exports |-> {}, injected |-> FALSE, importedBy |-> "",
   edits |-> [p \in PageIds |-> 0], runs |-> [p \in PageIds |-> 0]]

\* n calls of triggerPageSync(p) were made, t being the timeouts before.
Edited(h, t, p, n) ==
  IF n = 0 THEN h
  ELSE [h EXCEPT !.edits[p] = IF t[p] = 0 THEN n ELSE @ + n,
                 !.runs[p] = IF t[p] = 0 THEN 0 ELSE @]

\* The store after the pages were created and the timeouts of their
\* creation have expired; withVault: a vault folder was chosen and the
\* engine initialized with it.
InitWith(withVault) ==
  /\ blocks = <<>>
  /\ pages = InitPages
  /\ uuid = 0
  /\ last = [op |-> "init", id |-> NullId, arg |-> NullId, ok |-> TRUE]
  /\ prev = <<>>
  /\ files = <<>>
  /\ fileCache = <<>>
  /\ now = 1
  /\ dirs = {}
  /\ parsed = <<>>
  /\ hist = InitHist
  /\ vault = withVault
  /\ visits = <<>>
  /\ ret = <<>>
  /\ timers = [p \in PageIds |-> 0]
  /\ procs = <<>>

Init == InitWith(FALSE)

\* createBlock(pageId, content, parentId) with a content out of cs.
CreateBlockOf(cs) ==
  /\ uuid < MaxUuid
  /\ \E c \in cs, parent \in {NullId} \cup DOMAIN blocks :
       /\ parent # NullId => blocks[parent].pageId = "p1"
       /\ blocks' = createBlock(blocks, UUID(uuid + 1), "p1", c, parent)
       /\ Done("createBlock", UUID(uuid + 1), TRUE)
  /\ uuid' = uuid + 1
  /\ prev' = blocks
  /\ timers' = triggerPageSync(timers, "p1")
  /\ hist' = Edited(hist, timers, "p1", 1)
  /\ UNCHANGED ioVars

CreateBlock == CreateBlockOf({<<"a">>})

DeleteBlock ==
  \E id \in DOMAIN blocks :
    /\ blocks' = deleteBlock(blocks, id)
    /\ Done("deleteBlock", id, TRUE)
    /\ prev' = blocks
    /\ timers' = deleteTimers(timers, blocks, id)
    /\ hist' = Edited(hist, timers, blocks[id].pageId,
                      Cardinality(DOMAIN blocks) - Cardinality(DOMAIN blocks'))
    /\ UNCHANGED <<uuid, ioVars>>

\* The world becomes w, if w is within the bounds of the model.
Within(w) ==
  /\ w.now <= MaxTime
  /\ w.uuid <= MaxUuid
  /\ Becomes(w)

\* A timeout of triggerPageSync expires.  Without a vault syncToFileSystem
\* throws at once and the error is logged.
TimerFires ==
  \E p \in PageIds :
    /\ timers[p] > 0
    /\ timers' = [timers EXCEPT ![p] = @ - 1]
    /\ Within(IF vault THEN syncToFileSystem(World, p) ELSE World)
    /\ last' = [op |-> "syncToFileSystem", id |-> NullId, arg |-> NullId,
                ok |-> vault]
    /\ prev' = blocks
    /\ hist' = [hist EXCEPT !.prevFiles = files, !.runs[p] = @ + 1]
    /\ UNCHANGED <<vault, visits, ret, procs, parsed>>

IndentBlock ==
  \E id \in DOMAIN blocks :
    /\ blocks' = indentBlock(blocks, id)
    /\ OrdersBounded(blocks')
    /\ Done("indentBlock", id, indentOk(blocks, id))
    /\ prev' = blocks
    /\ UNCHANGED <<uuid, timers, envVars>>

OutdentBlock ==
  \E id \in DOMAIN blocks :
    /\ blocks' = outdentBlock(blocks, id)
    /\ OrdersBounded(blocks')
    /\ Done("outdentBlock", id, outdentOk(blocks, id))
    /\ prev' = blocks
    /\ UNCHANGED <<uuid, timers, envVars>>

Next ==
  \/ CreateBlock
  \/ TimerFires
  \/ DeleteBlock
  \/ IndentBlock
  \/ OutdentBlock

Spec == Init /\ [][Next]_vars

(***************************************************************************)
(* Tree vocabulary used by the properties.  Ancestors are found by walking *)
(* parentId links upwards, with as many steps as there are blocks, so the  *)
(* walk also ends on a table that holds a cycle.                           *)
(***************************************************************************)
RECURSIVE AncestorsOrSelf(_, _, _)
AncestorsOrSelf(bs, i, fuel) ==
  IF i \notin DOMAIN bs \/ fuel = 0 THEN {}
  ELSE {i} \cup AncestorsOrSelf(bs, bs[i].parentId, fuel - 1)

Subtree(bs, id) ==
  {i \in DOMAIN bs : id \in AncestorsOrSelf(bs, i, Cardinality(DOMAIN bs))}

\* Walking parentId from i reaches a top-level block.
RECURSIVE ReachesTop(_, _, _)
ReachesTop(bs, i, fuel) ==
  IF i = NullId THEN TRUE
  ELSE IF i \notin DOMAIN bs \/ fuel = 0 THEN FALSE
  ELSE ReachesTop(bs, bs[i].parentId, fuel - 1)

NoCycle(bs) == \A i \in DOMAIN bs : ReachesTop(bs, i, Cardinality(DOMAIN bs))

OrdersUnique(bs) ==
  \A i, j \in DOMAIN bs :
    (i # j /\ bs[i].pageId = bs[j].pageId /\ bs[i].parentId = bs[j].parentId)
      => bs[i].order # bs[j].order

(***************************************************************************)
(* C1: starting from unique sibling orders, an indentBlock or outdentBlock *)
(* leaves the orders of the children of every parent (and of the top       *)
(* level of every page) pairwise different.                                *)
(***************************************************************************)
C1_OrdersStayUnique ==
  (last.op \in {"indentBlock", "outdentBlock"} /\ OrdersUnique(prev))
    => OrdersUnique(blocks)

(***************************************************************************)
(* C4: deleteBlock(id) removes the block id and all its transitive         *)
(* descendants, leaves every other block as it was, and the number of      *)
(* blocks drops by the size of the subtree rooted at id.                   *)
(***************************************************************************)
C4_DeleteRemovesExactlySubtree ==
  last.op = "deleteBlock" =>
    /\ DOMAIN blocks = DOMAIN prev \ Subtree(prev, last.id)
    /\ \A i \in DOMAIN blocks : blocks[i] = prev[i]
    /\ Cardinality(DOMAIN prev) - Cardinality(DOMAIN blocks)
         = Cardinality(Subtree(prev, last.id))

\* A block with descendants was deleted and another block is left.
C4_Witness ==
  /\ last.op = "deleteBlock"
  /\ Cardinality(Subtree(prev, last.id)) >= 2
  /\ DOMAIN blocks # {}

(***************************************************************************)
(* The store with moveBlock called directly, with any target.              *)
(***************************************************************************)
MoveBlock ==
  \E id \in DOMAIN blocks, newParentId \in {NullId} \cup DOMAIN blocks,
     newOrder \in 0..1 :
    /\ blocks' = moveBlock(blocks, id, newParentId, newOrder)
    /\ last' = [op |-> "moveBlock", id |-> id, arg |-> newParentId, ok |-> TRUE]
    /\ prev' = blocks
    /\ UNCHANGED <<uuid, timers, envVars>>

NextMove ==
  \/ CreateBlock
  \/ MoveBlock

SpecMove == Init /\ [][NextMove]_vars

(***************************************************************************)
(* C2: a moveBlock whose new parent is the block itself or one of its      *)
(* descendants leaves the store unchanged, and no table ever holds a       *)
(* cycle of parentId links.                                                *)
(***************************************************************************)
C2_MoveRejectsCycles ==
  /\ (last.op = "moveBlock" /\ last.arg \in Subtree(prev, last.id))
       => blocks = prev
  /\ NoCycle(blocks)

(***************************************************************************)
(* The codec applied to the trees the block operations build.              *)
(***************************************************************************)
CodecContents == {<<"a">>, <<"a", "\n", "b">>}

ToggleBlockCollapse ==
  \E id \in DOMAIN blocks :
    /\ blocks' = toggleBlockCollapse(blocks, id)
    /\ Done("toggleBlockCollapse", id, TRUE)
    /\ prev' = blocks
    /\ UNCHANGED <<uuid, timers, envVars>>

\* markdownToPage(pageToMarkdown(page, blocks)) for page p1.
RoundTrip ==
  LET text == pageToMarkdown("p1", pages["p1"], PageBlocks(blocks, "p1"))
      res == markdownToPage(text, generateFilename(pages["p1"]), now, uuid)
  IN  /\ uuid + res.used <= MaxUuid
      /\ parsed' = res
      /\ uuid' = uuid + res.used
      /\ Done("roundTrip", NullId, TRUE)
      /\ prev' = blocks
      /\ UNCHANGED <<blocks, pages, files, fileCache, now, dirs, vault, visits, ret, timers, procs,
                     hist>>

NextCodec ==
  \/ CreateBlockOf(CodecContents)
  \/ OutdentBlock
  \/ ToggleBlockCollapse
  \/ RoundTrip

SpecCodec == Init /\ [][NextCodec]_vars

\* The tree of a table without the ids: depth and content of every block
\* in depth-first order, children by order, collapsed or not.
RECURSIVE Preorder(_, _, _)
Preorder(bs, id, depth) ==
  LET RECURSIVE Each(_)
      Each(kids) ==
        IF kids = <<>> THEN <<>>
        ELSE Preorder(bs, Head(kids), depth + 1) \o Each(Tail(kids))
  IN  <<[depth |-> depth, content |-> bs[id].content]>>
        \o Each(SortByOrder(bs, ChildrenOf(bs, id)))

Shape(bs) ==
  LET RECURSIVE Each(_)
      Each(roots) ==
        IF roots = <<>> THEN <<>>
        ELSE Preorder(bs, Head(roots), 0) \o Each(Tail(roots))
  IN  Each(SortByOrder(bs, {i \in DOMAIN bs : bs[i].parentId = NullId}))

(***************************************************************************)
(* C5: parsing the serialization of a page gives as many blocks as the     *)
(* page has, with the same contents, the same parent/child structure and   *)
(* the same sibling order, whatever the collapse flags.                    *)
(***************************************************************************)
C5_RoundTrip ==
  last.op = "roundTrip" =>
    /\ Len(parsed.blocks) = Cardinality(DOMAIN PageBlocks(blocks, "p1"))
    /\ Shape(RowsToTable(parsed.blocks)) = Shape(PageBlocks(blocks, "p1"))

(***************************************************************************)
(* The synchronization engine, one operation at a time: exports, change    *)
(* detection cycles and full synchronizations run to completion, between   *)
(* edits of the store and edits of the files from outside.                 *)
(***************************************************************************)
\* What a user may leave in the file of page p1: block 1 with a new text,
\* and the same with the line copied (the id marker with it).
ExternalBodies ==
  { <<"\n", "-", " ", "b", " ", "^", "1", "\n">>,
    <<"\n", "-", " ", "b", " ", "^", "1", "\n",
      "-", " ", "b", " ", "^", "1", "\n">> }

SyncDone(op, ok, h) ==
  /\ last' = [op |-> op, id |-> NullId, arg |-> NullId, ok |-> ok]
  /\ prev' = blocks
  /\ hist' = [h EXCEPT !.prevFiles = files]
  /\ UNCHANGED <<vault, visits, ret, timers, procs, parsed>>

\* The watcher's timer fires: one checkForChanges.
CheckForChanges ==
  \E listing \in Listings(files) :
    /\ Within(checkForChanges(World, listing))
    /\ SyncDone("checkForChanges", TRUE, hist)

AtMostOne(S) == {{}} \cup {{x} : x \in S}

FullSyncDone(r, injected) ==
  /\ Within(r.w)
  /\ SyncDone("fullSync", ~r.threw,
              [hist EXCEPT !.found = DOMAIN files, !.pagesAt = r.pagesAt,
                           !.imports = r.imports, !.exports = r.exports,
                           !.injected = injected])

\* fullSync; the import of the files in failImports and the export of the
\* pages in failExports throw.
FullSyncWith(failImports, failExports) ==
  \E listing \in Listings(files) :
    FullSyncDone(fullSync(World, listing, failImports, failExports),
                 failImports # {} \/ failExports # {})

FullSyncOk == FullSyncWith({}, {})

FullSync ==
  \E failImports \in AtMostOne(DOMAIN files),
     failExports \in AtMostOne(DOMAIN pages) :
    FullSyncWith(failImports, failExports)

\* Somebody edits the file of page p1 with another program.
ExternalEdit ==
  \E path \in DOMAIN files, body \in ExternalBodies :
    /\ now < MaxTime
    /\ files[path].fm.id = "p1"
    /\ files' = [files EXCEPT ![path] =
                   [fm |-> @.fm, body |-> body, mtime |-> now + 1, by |-> "external"]]
    /\ now' = now + 1
    /\ last' = [op |-> "externalEdit", id |-> NullId, arg |-> NullId, ok |-> TRUE]
    /\ prev' = blocks
    /\ hist' = [hist EXCEPT !.prevFiles = files, !.extEver = TRUE]
    /\ UNCHANGED <<blocks, pages, uuid, fileCache, dirs, vault, visits, ret, timers, procs, parsed>>

\* The store holds at most this many blocks while the engine is exercised.
MaxSyncBlocks == 2

SyncCreateBlock ==
  /\ Cardinality(DOMAIN blocks) < MaxSyncBlocks
  /\ CreateBlock

NextSync ==
  \/ SyncCreateBlock
  \/ ToggleBlockCollapse
  \/ TimerFires
  \/ CheckForChanges
  \/ FullSyncOk

SpecSync == InitWith(TRUE) /\ [][NextSync]_vars

NextFull ==
  \/ SyncCreateBlock
  \/ TimerFires
  \/ ExternalEdit
  \/ FullSync

SpecFull == InitWith(TRUE) /\ [][NextFull]_vars

(***************************************************************************)
(* C3: with no file edited from outside and no export of an earlier edit   *)
(* pending, a toggleBlockCollapse, a change detection cycle or a fullSync  *)
(* leaves every block in the store, with its content and its parent.       *)
(***************************************************************************)
C3_CollapseLosesNothing ==
  (/\ \A p \in PageIds : timers[p] = 0
   /\ last.op \in {"toggleBlockCollapse", "syncToFileSystem",
                    "checkForChanges", "fullSync"})
    => \A i \in DOMAIN prev :
         /\ i \in DOMAIN blocks
         /\ blocks[i].content = prev[i].content
         /\ blocks[i].parentId = prev[i].parentId

(***************************************************************************)
(* C8: when a fullSync in which no I/O call fails ends, every document     *)
(* whose file was last written from outside has the blocks of that file    *)
(* in the store, and the file still holds them.                            *)
(***************************************************************************)
C8_ExternalEditSurvivesFullSync ==
  (last.op = "fullSync" /\ ~hist.injected) =>
    \A f \in DOMAIN hist.prevFiles :
      hist.prevFiles[f].by = "external" =>
        LET ext == hist.prevFiles[f]
            rows == parseBlocks(ext.body, ext.fm.id, 0).blocks
            inStore == PageBlocks(blocks, ext.fm.id)
        IN  /\ Cardinality(DOMAIN inStore) = Len(rows)
            /\ Shape(inStore) = Shape(RowsToTable(rows))
            /\ f \in DOMAIN files
            /\ LET onDisk == parseBlocks(files[f].body, ext.fm.id, 0).blocks
               IN  /\ Len(onDisk) = Len(rows)
                   /\ Shape(RowsToTable(onDisk)) = Shape(RowsToTable(rows))

(***************************************************************************)
(* C9: a fullSync attempts the import of every file it found and the       *)
(* export of every document in the store, also when one of them fails.     *)
(***************************************************************************)
C9_FullSyncAttemptsEveryUnit ==
  last.op = "fullSync" =>
    /\ hist.imports = hist.found
    /\ hist.exports = hist.pagesAt

(***************************************************************************)
(* Edits of page p1 and the exports their timeouts start.                  *)
(***************************************************************************)
UpdateContents == {<<"a">>, <<"b">>}

\* updateBlock is not called while this many exports of the page are pending.
MaxPending == 2

UpdateBlock ==
  \E id \in DOMAIN blocks, c \in UpdateContents :
    /\ timers[blocks[id].pageId] < MaxPending
    /\ blocks' = updateBlock(blocks, id, c)
    /\ Done("updateBlock", id, TRUE)
    /\ prev' = blocks
    /\ timers' = triggerPageSync(timers, blocks[id].pageId)
    /\ hist' = Edited(hist, timers, blocks[id].pageId, 1)
    /\ UNCHANGED <<uuid, ioVars>>

NextDebounce ==
  \/ SyncCreateBlock
  \/ UpdateBlock
  \/ TimerFires

SpecDebounce == InitWith(TRUE) /\ [][NextDebounce]_vars

Pc(name) == IF name \in DOMAIN procs THEN procs[name].pc ELSE "idle"

Put(name, rec) == procs' = (name :> rec) @@ procs

Step(op) ==
  /\ last' = [op |-> op, id |-> NullId, arg |-> NullId, ok |-> TRUE]
  /\ prev' = blocks
  /\ UNCHANGED <<vault, visits, ret, parsed>>

\* A timeout of triggerPageSync expires and syncToFileSystem reads the store.
ExportRead ==
  \E p \in PageIds :
    /\ Pc("export") = "idle"
    /\ timers[p] > 0
    /\ timers' = [timers EXCEPT ![p] = @ - 1]
    /\ Put("export", [pc |-> "write", job |-> exportRead(World, p), modifiedTime |-> 0])
    /\ hist' = [hist EXCEPT !.runs[p] = @ + 1]
    /\ Step("exportRead")
    /\ UNCHANGED <<blocks, pages, uuid, files, fileCache, now, dirs>>

ExportWrite ==
  /\ Pc("export") = "write"
  /\ Within(exportWrite(World, procs["export"].job))
  /\ Put("export", [procs["export"] EXCEPT !.pc = "stat"])
  /\ Step("exportWrite")
  /\ UNCHANGED <<timers, hist>>

ExportStat ==
  /\ Pc("export") = "stat"
  /\ Put("export", [procs["export"] EXCEPT
                      !.pc = "cache",
                      !.modifiedTime = exportStat(World, procs["export"].job)])
  /\ Step("exportStat")
  /\ UNCHANGED <<blocks, pages, uuid, files, fileCache, now, dirs, timers, hist>>

ExportCache ==
  /\ Pc("export") = "cache"
  /\ Becomes(exportCache(World, procs["export"].job, procs["export"].modifiedTime))
  /\ Put("export", [pc |-> "idle", job |-> <<>>, modifiedTime |-> 0])
  /\ Step("exportCache")
  /\ UNCHANGED <<timers, hist>>

\* The interval of the watcher expires: checkForChanges gets both
\* directories and lists the files.
WatchStart ==
  /\ Pc("watch") = "idle"
  /\ {"pages", "journals"} \subseteq dirs
  /\ \E listing \in Listings(files) :
       Put("watch", [pc |-> "stat", listing |-> listing, currentModified |-> 0,
                     res |-> <<>>, by |-> ""])
  /\ Step("watchStart")
  /\ UNCHANGED <<blocks, pages, uuid, files, fileCache, now, dirs, timers, hist>>

\* lastModified of the next file is read and compared with the cache.
WatchStat ==
  /\ Pc("watch") = "stat"
  /\ LET wp == procs["watch"]
     IN  Put("watch",
             IF wp.listing = <<>> THEN [wp EXCEPT !.pc = "idle"]
             ELSE IF fileChanged(World, Head(wp.listing))
             THEN [wp EXCEPT !.pc = "read",
                             !.currentModified = files[Head(wp.listing)].mtime]
             ELSE [wp EXCEPT !.listing = Tail(@)])
  /\ Step("watchStat")
  /\ UNCHANGED <<blocks, pages, uuid, files, fileCache, now, dirs, timers, hist>>

\* readPageFile: the text of the file as it is now, parsed.
WatchRead ==
  /\ Pc("watch") = "read"
  /\ LET key == Head(procs["watch"].listing)
     IN  Put("watch", [procs["watch"] EXCEPT
                        !.pc = "import",
                        !.res = markdownToPage(files[key], key[2], now, uuid),
                        !.by = files[key].by])
  /\ Step("watchRead")
  /\ UNCHANGED <<blocks, pages, uuid, files, fileCache, now, dirs, timers, hist>>

\* importPageToDatabase, then fileCache.set.
WatchImport ==
  /\ Pc("watch") = "import"
  /\ Within(checkImport(World, Head(procs["watch"].listing),
                        procs["watch"].currentModified, procs["watch"].res))
  /\ Put("watch", [procs["watch"] EXCEPT !.pc = "stat", !.listing = Tail(@),
                                         !.res = <<>>])
  /\ hist' = [hist EXCEPT !.importedBy = procs["watch"].by]
  /\ Step("watchImport")
  /\ UNCHANGED timers

\* fullSync while neither an export nor a cycle is in progress.
FullSyncAlone ==
  /\ Pc("export") = "idle"
  /\ Pc("watch") = "idle"
  /\ FullSyncOk

NextRace ==
  \/ SyncCreateBlock
  \/ FullSyncAlone
  \/ ExternalEdit
  \/ ExportRead
  \/ ExportWrite
  \/ ExportStat
  \/ ExportCache
  \/ WatchStart
  \/ WatchStat
  \/ WatchRead
  \/ WatchImport

SpecRace == InitWith(TRUE) /\ [][NextRace]_vars

(***************************************************************************)
(* C7: whatever the interleaving of an export with a change detection      *)
(* cycle, the cycle never imports a file that the engine's own export      *)
(* wrote.                                                                  *)
(***************************************************************************)
C7_NoSelfImport ==
  last.op = "watchImport" => hist.importedBy # "engine"

(***************************************************************************)
(* Two structural operations in progress at the same time.  Each call      *)
(* advances from one await to the next and the other may run in between.   *)
(* pr = [op, id, pc, block, parent, prevSibling, later, newOrder, ok]      *)
(* holds the position and the local variables of a call.                   *)
(***************************************************************************)
Returns(bs, pr, ok) == [bs |-> bs, pr |-> [pr EXCEPT !.pc = "done", !.ok = ok]]

\* outdentBlock: get the block, get the parent, list the page, update the
\* later siblings of the parent one by one, move.
outdentStep(bs, pr) ==
  CASE pr.pc = "get" ->
         IF pr.id \notin DOMAIN bs \/ bs[pr.id].parentId = NullId
         THEN Returns(bs, pr, FALSE)
         ELSE [bs |-> bs, pr |-> [pr EXCEPT !.pc = "parent", !.block = bs[pr.id]]]
    [] pr.pc = "parent" ->
         IF pr.block.parentId \notin DOMAIN bs
         THEN Returns(bs, pr, FALSE)
         ELSE [bs |-> bs,
               pr |-> [pr EXCEPT !.pc = "list", !.parent = bs[pr.block.parentId]]]
    [] pr.pc = "list" ->
         LET parentSiblings ==
               SortByOrder(bs, SiblingsOf(bs, pr.block.pageId, pr.parent.parentId))
             parentIndex == IndexOf(parentSiblings, pr.block.parentId)
         IN  [bs |-> bs,
              pr |-> [pr EXCEPT
                        !.pc = "shift",
                        !.newOrder = pr.parent.order + 1,
                        !.later = [k \in 1..(Len(parentSiblings) - parentIndex) |->
                                     [id |-> parentSiblings[parentIndex + k],
                                      order |-> bs[parentSiblings[parentIndex + k]].order + 1]]]]
    [] pr.pc = "shift" /\ pr.later # <<>> ->
         [bs |-> IF Head(pr.later).id \in DOMAIN bs
                 THEN [bs EXCEPT ![Head(pr.later).id].order = Head(pr.later).order]
                 ELSE bs,
          pr |-> [pr EXCEPT !.later = Tail(@)]]
    [] pr.pc = "shift" /\ pr.later = <<>> ->
         Returns(moveBlock(bs, pr.id, pr.parent.parentId, pr.newOrder), pr, TRUE)

\* indentBlock: get the block, list the page, count the children of the
\* previous sibling, move.
indentStep(bs, pr) ==
  CASE pr.pc = "get" ->
         IF pr.id \notin DOMAIN bs
         THEN Returns(bs, pr, FALSE)
         ELSE [bs |-> bs, pr |-> [pr EXCEPT !.pc = "list", !.block = bs[pr.id]]]
    [] pr.pc = "list" ->
         LET siblings ==
               SortByOrder(bs, SiblingsOf(bs, pr.block.pageId, pr.block.parentId))
             currentIndex == IndexOf(siblings, pr.id)
         IN  IF currentIndex <= 1
             THEN Returns(bs, pr, FALSE)
             ELSE [bs |-> bs,
                   pr |-> [pr EXCEPT !.pc = "children",
                                     !.prevSibling = siblings[currentIndex - 1]]]
    [] pr.pc = "children" ->
         [bs |-> bs,
          pr |-> [pr EXCEPT !.pc = "move",
                            !.newOrder = Cardinality(ChildrenOf(bs, pr.prevSibling))]]
    [] pr.pc = "move" ->
         Returns(moveBlock(bs, pr.id, pr.prevSibling, pr.newOrder), pr, TRUE)

opStep(bs, pr) == IF pr.op = "outdentBlock" THEN outdentStep(bs, pr) ELSE indentStep(bs, pr)

\* The same operation with nothing running between its steps.
runAlone(bs, op, id) ==
  IF op = "outdentBlock" THEN outdentBlock(bs, id) ELSE indentBlock(bs, id)

Calls == {"a", "b"}

StructuralOps == {"outdentBlock", "indentBlock"}

NewCall(op, id) ==
  [op |-> op, id |-> id, pc |-> "get", block |-> <<>>, parent |-> <<>>,
   prevSibling |-> NullId, later |-> <<>>, newOrder |-> 0, ok |-> FALSE]

\* The tree is built before the two calls start.
ConcCreateBlock ==
  /\ procs = <<>>
  /\ CreateBlock

\* Two handlers call a structural operation each, on two blocks.
StartCalls ==
  /\ procs = <<>>
  /\ \E opA, opB \in StructuralOps, idA, idB \in DOMAIN blocks :
       /\ idA # idB
       /\ procs' = ("a" :> NewCall(opA, idA)) @@ ("b" :> NewCall(opB, idB))
  /\ last' = [op |-> "start", id |-> NullId, arg |-> NullId, ok |-> TRUE]
  /\ prev' = blocks
  /\ UNCHANGED <<blocks, pages, uuid, files, fileCache, now, dirs, vault, visits, ret, timers,
                 parsed, hist>>

\* One call runs up to its next await.
Advance(c, next) ==
  /\ OrdersBounded(next.bs)
  /\ blocks' = next.bs
  /\ procs' = [procs EXCEPT ![c] = next.pr]
  /\ last' = [op |-> next.pr.op, id |-> next.pr.id, arg |-> NullId,
              ok |-> next.pr.ok]

CallStep ==
  \E c \in Calls :
    /\ c \in DOMAIN procs
    /\ procs[c].pc # "done"
    /\ Advance(c, opStep(blocks, procs[c]))
    /\ UNCHANGED <<pages, uuid, files, fileCache, now, dirs, vault, visits, ret, timers,
                   parsed, hist, prev>>

NextConc ==
  \/ ConcCreateBlock
  \/ StartCalls
  \/ CallStep

SpecConc == Init /\ [][NextConc]_vars

BothReturned == procs # <<>> /\ \A c \in Calls : procs[c].pc = "done"

\* What the two calls leave when one runs after the other.
SerialResults ==
  { runAlone(runAlone(prev, procs["a"].op, procs["a"].id), procs["b"].op, procs["b"].id),
    runAlone(runAlone(prev, procs["b"].op, procs["b"].id), procs["a"].op, procs["a"].id) }

(***************************************************************************)
(* C6: when two structural operations started together have both           *)
(* returned, the store is what one of the two serial executions leaves,    *)
(* and its sibling orders are unique if those executions leave them so.    *)
(***************************************************************************)
C6_StructuralOpsSerializable ==
  BothReturned =>
    /\ blocks \in SerialResults
    /\ (\A r \in SerialResults : OrdersUnique(r)) => OrdersUnique(blocks)

(***************************************************************************)
(* A file edited from outside while the store is edited: the timeouts of   *)
(* the store's edits and the watcher's cycles come in any order.           *)
(***************************************************************************)
NextConflict ==
  \/ SyncCreateBlock
  \/ UpdateBlock
  \/ TimerFires
  \/ ExternalEdit
  \/ CheckForChanges
  \/ FullSyncOk

SpecConflict == InitWith(TRUE) /\ [][NextConflict]_vars

\* The files of page pageId that were written from outside and that the
\* watcher has not imported yet.
PendingExternal(pageId) ==
  {f \in DOMAIN files : /\ files[f].by = "external"
                        /\ files[f].fm.id = pageId
                        /\ fileChanged(World, f)}

(***************************************************************************)
(* C11: when a document is edited in the store while an external change    *)
(* of its file waits to be imported, the export that follows leaves the    *)
(* file as the external program wrote it (the file wins).                  *)
(***************************************************************************)
C11_FileWins ==
  [][(/\ last.op \in {"createBlock", "updateBlock"}
      /\ last'.op = "syncToFileSystem")
       => \A f \in PendingExternal(blocks[last.id].pageId) :
            f \in DOMAIN files' /\ files'[f] = files[f]]_vars

(***************************************************************************)
(* The import of one file: readPageFile and importPageToDatabase, the      *)
(* round that the loops of syncFromFileSystem and of                       *)
(* checkDirectoryForChanges perform for a file.                            *)
(***************************************************************************)
\* What another program may leave in a file: the bodies above and a list
\* item without an id marker.
ImportBodies == ExternalBodies \cup { <<"\n", "-", " ", "c", "\n">> }

\* Another program writes the file of a page.
ExternalWrite ==
  \E p \in PageIds, body \in ImportBodies :
    /\ now < MaxTime
    /\ files' = (PathOf(pages[p])
                   :> [fm |-> pageToMarkdown(p, pages[p], <<>>).fm, body |-> body,
                       mtime |-> now + 1, by |-> "external"]) @@ files
    /\ now' = now + 1
    /\ last' = [op |-> "externalWrite", id |-> NullId, arg |-> NullId, ok |-> TRUE]
    /\ prev' = blocks
    /\ hist' = [hist EXCEPT !.prevFiles = files, !.extEver = TRUE]
    /\ UNCHANGED <<blocks, pages, uuid, fileCache, dirs, vault, visits, ret, timers, procs, parsed>>

ImportDone(key, res, imp) ==
  /\ Within(imp.w)
  /\ parsed' = res
  /\ last' = [op |-> "importPageToDatabase", id |-> NullId, arg |-> key,
              ok |-> imp.ok]
  /\ prev' = blocks
  /\ hist' = [hist EXCEPT !.prevFiles = files]
  /\ UNCHANGED <<vault, visits, ret, timers, procs>>

ImportParsed(key, res) ==
  ImportDone(key, res, importPageToDatabase([World EXCEPT !.uuid = @ + res.used], res))

ImportFile ==
  \E key \in DOMAIN files :
    ImportParsed(key, markdownToPage(files[key], key[2], now, uuid))

NextImport ==
  \/ SyncCreateBlock
  \/ TimerFires
  \/ ExternalWrite
  \/ ImportFile

SpecImport == InitWith(TRUE) /\ [][NextImport]_vars

(***************************************************************************)
(* C12: importing a file a second time, the file and the store untouched   *)
(* since its first import, changes neither the set of documents nor any    *)
(* block of the store (same ids, contents, parents and orders).            *)
(***************************************************************************)
C12_ReimportIdempotent ==
  [][(/\ last.op = "importPageToDatabase"
      /\ last'.op = "importPageToDatabase"
      /\ last'.arg = last.arg)
       => /\ DOMAIN pages' = DOMAIN pages
          /\ blocks' = blocks]_vars

(***************************************************************************)
(* C13: after the import of a file whose id is that of a document of the   *)
(* store, the blocks of that document are exactly the rows parsed from     *)
(* the file, and the blocks of the other documents are as they were.       *)
(***************************************************************************)
C13_ImportReplacesBlockSet ==
  last.op = "importPageToDatabase" =>
    LET pageId == parsed.page.id
    IN  /\ Cardinality(DOMAIN PageBlocks(blocks, pageId)) = Len(parsed.blocks)
        /\ PageBlocks(blocks, pageId) = RowsToTable(parsed.blocks)
        /\ \A i \in DOMAIN prev :
             prev[i].pageId # pageId => i \in DOMAIN blocks /\ blocks[i] = prev[i]

(***************************************************************************)
(* The editor at work with a vault chosen: every mutation of blockUtils,   *)
(* and the timeouts they set.                                              *)
(***************************************************************************)
\* Blocks are created until MaxSyncBlocks have been.
AutoCreateBlock ==
  /\ uuid < MaxSyncBlocks
  /\ SyncCreateBlock

NextAuto ==
  \/ AutoCreateBlock
  \/ UpdateBlock
  \/ DeleteBlock
  \/ IndentBlock
  \/ OutdentBlock
  \/ ToggleBlockCollapse
  \/ TimerFires

SpecAuto == InitWith(TRUE) /\ [][NextAuto]_vars

(***************************************************************************)
(* C14: every mutation of a document schedules an export of it, so once    *)
(* no export of a document is pending, the file of a document that was     *)
(* ever edited holds what an export of the store would write now.          *)
(***************************************************************************)
C14_MutationsReachDisk ==
  \A p \in PageIds :
    (/\ timers[p] = 0
     /\ DOMAIN PageBlocks(blocks, p) # {} \/ PathOf(pages[p]) \in DOMAIN files)
      => /\ PathOf(pages[p]) \in DOMAIN files
         /\ files[PathOf(pages[p])].body
              = pageToMarkdown(p, pages[p], PageBlocks(blocks, p)).body

(***************************************************************************)
(* The watcher.  procs["watcher"] holds the engine's watcherInterval       *)
(* (0: null), the interval timers the window has (live), the number of     *)
(* setInterval calls made, and the checkForChanges calls in flight.        *)
(***************************************************************************)
\* setInterval is not called more often than this.
MaxIntervals == 3

\* No more than this many cycles are in flight at a time.
MaxCycles == 2

Watcher ==
  IF "watcher" \in DOMAIN procs THEN procs["watcher"]
  ELSE [watcherInterval |-> 0, live |-> {}, made |-> 0, cycles |-> 0]

\* startWatching without its guard.
startWatchingAgain(wt) ==
  [wt EXCEPT !.watcherInterval = wt.made + 1,
             !.live = @ \cup {wt.made + 1},
             !.made = @ + 1]

startWatching(wt) ==
  IF wt.watcherInterval # 0 THEN wt
  ELSE [wt EXCEPT !.watcherInterval = wt.made + 1,
                  !.live = @ \cup {wt.made + 1},
                  !.made = @ + 1]

stopWatching(wt) ==
  IF wt.watcherInterval # 0
  THEN [wt EXCEPT !.live = @ \ {wt.watcherInterval}, !.watcherInterval = 0]
  ELSE wt

WatcherDone(op, wt, ok) ==
  /\ Put("watcher", wt)
  /\ last' = [op |-> op, id |-> NullId, arg |-> NullId, ok |-> ok]
  /\ prev' = blocks
  /\ UNCHANGED <<blocks, pages, uuid, files, now, dirs, vault, visits, ret, timers, parsed, hist>>

\* ok: the call found the watcher stopped.
StartWatching ==
  /\ Watcher.made < MaxIntervals
  /\ WatcherDone("startWatching", startWatching(Watcher), Watcher.watcherInterval = 0)
  /\ UNCHANGED fileCache

\* ok: the call found the watcher running.
StopWatching ==
  /\ WatcherDone("stopWatching", stopWatching(Watcher), Watcher.watcherInterval # 0)
  /\ UNCHANGED fileCache

\* destroy: stopWatching, and the cache is cleared.
Destroy ==
  /\ WatcherDone("destroy", stopWatching(Watcher), Watcher.watcherInterval # 0)
  /\ fileCache' = <<>>

\* An interval timer of the window fires: checkForChanges is called and
\* is in flight from here on.
IntervalFires ==
  /\ Watcher.live # {}
  /\ Watcher.cycles < MaxCycles
  /\ WatcherDone("intervalFires", [Watcher EXCEPT !.cycles = @ + 1], TRUE)
  /\ UNCHANGED fileCache

\* A cycle in flight runs to its end.
CycleEnds ==
  /\ Watcher.cycles > 0
  /\ \E listing \in Listings(files) : Within(checkForChanges(World, listing))
  /\ Put("watcher", [Watcher EXCEPT !.cycles = @ - 1])
  /\ last' = [op |-> "checkForChanges", id |-> NullId, arg |-> NullId, ok |-> TRUE]
  /\ prev' = blocks
  /\ hist' = [hist EXCEPT !.prevFiles = files]
  /\ UNCHANGED <<vault, visits, ret, timers, parsed>>

\* fullSync and an external edit while the watcher record is kept.
WatchedSync ==
  /\ \E listing \in Listings(files) :
       Within(fullSync(World, listing, {}, {}).w)
  /\ last' = [op |-> "fullSync", id |-> NullId, arg |-> NullId, ok |-> TRUE]
  /\ prev' = blocks
  /\ hist' = [hist EXCEPT !.prevFiles = files]
  /\ UNCHANGED <<vault, visits, ret, timers, procs, parsed>>

NextWatch ==
  \/ StartWatching
  \/ StopWatching
  \/ Destroy
  \/ IntervalFires
  \/ CycleEnds
  \/ WatchedSync
  \/ ExternalEdit

SpecWatch == InitWith(TRUE) /\ [][NextWatch]_vars

(***************************************************************************)
(* C15: startWatching while watching makes no second timer and changes     *)
(* nothing, stopWatching while stopped changes nothing, the window never   *)
(* holds more than one interval timer of the engine, and no cycle begins   *)
(* once stopWatching or destroy has made watcherInterval null.             *)
(***************************************************************************)
C15_WatcherStartStop ==
  [][/\ (last'.op = "startWatching" /\ Watcher.watcherInterval # 0)
          => Watcher' = Watcher /\ fileCache' = fileCache
     /\ (last'.op = "stopWatching" /\ Watcher.watcherInterval = 0)
          => Watcher' = Watcher /\ fileCache' = fileCache
     /\ last'.op = "intervalFires" => Watcher.watcherInterval # 0
     /\ Cardinality(Watcher.live') <= 1]_vars

\* A cycle has begun after the watcher was stopped and started again, and
\* startWatching has been called while watching.
C15_Witness ==
  /\ last.op = "startWatching"
  /\ ~last.ok
  /\ Watcher.made >= 2
  /\ Watcher.cycles >= 1

(***************************************************************************)
(* The scenario of three top-level blocks A, B, C (ids 1, 2, 3) of page    *)
(* p1 at orders 0, 1, 2: indentBlock(B), then outdentBlock(B).             *)
(***************************************************************************)
ScenarioBlock(parentId, order) ==
  [content |-> <<"a">>, parentId |-> parentId, pageId |-> "p1", order |-> order,
   collapsed |-> FALSE]

ScenarioStart ==
  (UUID(1) :> ScenarioBlock(NullId, 0)) @@ (UUID(2) :> ScenarioBlock(NullId, 1))
    @@ (UUID(3) :> ScenarioBlock(NullId, 2))

\* The scenario's indentBlock(B) has run.
ScenarioIndent ==
  last.op = "indentBlock" /\ last.id = UUID(2) /\ prev = ScenarioStart

\* The scenario's outdentBlock(B) has run on what indentBlock(B) left.
ScenarioOutdent ==
  /\ last.op = "outdentBlock"
  /\ last.id = UUID(2)
  /\ prev = indentBlock(ScenarioStart, UUID(2))

ScenarioIndented ==
  ScenarioIndent =>
    /\ last.ok
    /\ blocks[UUID(2)].parentId = UUID(1) /\ blocks[UUID(2)].order = 0
    /\ blocks[UUID(3)].parentId = NullId /\ blocks[UUID(3)].order = 2
    /\ blocks[UUID(1)] = prev[UUID(1)]

(***************************************************************************)
(* C16 as stated: indent(B) makes B a child of A with order 0 and leaves   *)
(* C at the top level with order 2; the outdent(B) that follows returns B  *)
(* to the top level with order 2 and renumbers C to order 3.               *)
(***************************************************************************)
C16_ScenarioOrderTwo ==
  /\ ScenarioIndented
  /\ ScenarioOutdent =>
       /\ blocks[UUID(2)].parentId = NullId /\ blocks[UUID(2)].order = 2
       /\ blocks[UUID(3)].parentId = NullId /\ blocks[UUID(3)].order = 3

(***************************************************************************)
(* C16, amended: the outdent(B) returns B to the top level with order 1,   *)
(* which is A's order + 1, and renumbers C to order 3; A stays at order 0. *)
(***************************************************************************)
C16_ScenarioOrderOne ==
  /\ ScenarioIndented
  /\ ScenarioOutdent =>
       /\ last.ok
       /\ blocks[UUID(2)].parentId = NullId /\ blocks[UUID(2)].order = 1
       /\ blocks[UUID(3)].parentId = NullId /\ blocks[UUID(3)].order = 3
       /\ blocks[UUID(1)] = prev[UUID(1)]

\* The scenario has run to its end.
C16_Witness == ScenarioOutdent /\ blocks[UUID(3)].order = 3

\* The siblings of block id in table bs, by order.
SortedSiblings(bs, id) ==
  SortByOrder(bs, SiblingsOf(bs, bs[id].pageId, bs[id].parentId))

(***************************************************************************)
(* C17: indentBlock(id), sibling orders being unique, makes the block the  *)
(* last child of the sibling just before it, with order equal to the       *)
(* number of children that sibling had, and returns true; on the first     *)
(* sibling under its parent it changes nothing and returns false.          *)
(***************************************************************************)
C17_IndentUnderPreviousSibling ==
  (last.op = "indentBlock" /\ OrdersUnique(prev)) =>
    LET k == IndexOf(SortedSiblings(prev, last.id), last.id)
        previousSibling == SortedSiblings(prev, last.id)[k - 1]
    IN  IF k > 1
        THEN /\ last.ok
             /\ blocks[last.id].parentId = previousSibling
             /\ blocks[last.id].order = Cardinality(ChildrenOf(prev, previousSibling))
             /\ \A c \in ChildrenOf(prev, previousSibling) :
                  blocks[c].order < blocks[last.id].order
             /\ \A i \in DOMAIN prev \ {last.id} : blocks[i] = prev[i]
        ELSE ~last.ok /\ blocks = prev

\* The siblings of block parent that come after it in the sequence of its
\* siblings by order (equal orders, if any, in key order).
LaterSiblings(bs, parent) ==
  {i \in DOMAIN bs :
     /\ IndexOf(SortedSiblings(bs, parent), i) > 0
     /\ IndexOf(SortedSiblings(bs, parent), i)
          > IndexOf(SortedSiblings(bs, parent), parent)}

(***************************************************************************)
(* C18: outdentBlock(id) on a block with a parent returns true, makes the  *)
(* block a sibling of its former parent with the parent's order + 1, adds  *)
(* one to the order of every sibling of the former parent that came after  *)
(* the parent, and changes no other block.                                 *)
(***************************************************************************)
C18_OutdentAfterParent ==
  (/\ last.op = "outdentBlock"
   /\ prev[last.id].parentId \in DOMAIN prev)
    => LET parent == prev[last.id].parentId
       IN  /\ last.ok
           /\ blocks[last.id] =
                [prev[last.id] EXCEPT !.parentId = prev[parent].parentId,
                                      !.order = prev[parent].order + 1]
           /\ \A i \in DOMAIN prev \ {last.id} :
                blocks[i] = IF i \in LaterSiblings(prev, parent)
                            THEN [prev[i] EXCEPT !.order = @ + 1]
                            ELSE prev[i]

\* A block was outdented and a sibling of its former parent made room.
C18_Witness ==
  /\ last.op = "outdentBlock"
  /\ last.ok
  /\ LaterSiblings(prev, prev[last.id].parentId) # {}

(***************************************************************************)
(* C19: an indentBlock of a top-level block that succeeds, followed at     *)
(* once by outdentBlock of the same block, leaves the block at the top     *)
(* level with an order that no other top-level block of its page has.      *)
(***************************************************************************)
C19_IndentThenOutdent ==
  [][(/\ last.op = "indentBlock"
      /\ last.ok
      /\ prev[last.id].parentId = NullId
      /\ last'.op = "outdentBlock"
      /\ last'.id = last.id)
       => /\ last'.ok
          /\ blocks'[last.id].parentId = NullId
          /\ \A j \in SiblingsOf(blocks', blocks'[last.id].pageId, NullId) \ {last.id} :
               blocks'[j].order # blocks'[last.id].order]_vars

\* A block was outdented to the top level, among other top-level blocks,
\* from where an indentBlock of it at the top level had put it.
C19_Witness ==
  /\ last.op = "outdentBlock"
  /\ last.ok
  /\ blocks[last.id].parentId = NullId
  /\ Cardinality(SiblingsOf(blocks, "p1", NullId)) >= 3
  /\ \E o \in 0..MaxOrderVal :
       LET before == [prev EXCEPT ![last.id].parentId = NullId, ![last.id].order = o]
       IN  indentOk(before, last.id) /\ indentBlock(before, last.id) = prev

(***************************************************************************)
(* The structural operations called with any id, also one that no block    *)
(* has, and moveBlock with a parent that no block has.                     *)
(***************************************************************************)
\* The ids randomUUID has handed out so far, those of deleted blocks too,
\* and one it never hands out.
AnyIds == {UUID(k) : k \in 0..uuid}

\* A call of op on id has returned ok and left the table bs.
CalledAny(op, id, bs, ok) ==
  /\ blocks' = bs
  /\ OrdersBounded(bs)
  /\ Done(op, id, ok)
  /\ prev' = blocks
  /\ UNCHANGED <<uuid, envVars>>

DeleteAny ==
  \E id \in AnyIds :
    /\ CalledAny("deleteBlock", id, deleteBlock(blocks, id), TRUE)
    /\ timers' = deleteTimers(timers, blocks, id)

\* moveBlock to the top level or under the id that no block ever has.
MoveAny ==
  \E id \in AnyIds, newParentId \in {NullId, UUID(0)}, newOrder \in 0..1 :
    /\ CalledAny("moveBlock", id, moveBlock(blocks, id, newParentId, newOrder), TRUE)
    /\ UNCHANGED timers

IndentAny ==
  \E id \in AnyIds :
    /\ CalledAny("indentBlock", id, indentBlock(blocks, id), indentOk(blocks, id))
    /\ UNCHANGED timers

OutdentAny ==
  \E id \in AnyIds :
    /\ CalledAny("outdentBlock", id, outdentBlock(blocks, id), outdentOk(blocks, id))
    /\ UNCHANGED timers

\* toggleBlockCollapse on an id that no block has.
ToggleMissing ==
  \E id \in AnyIds \ DOMAIN blocks :
    /\ CalledAny("toggleBlockCollapse", id, toggleBlockCollapse(blocks, id), TRUE)
    /\ UNCHANGED timers

NextAny ==
  \/ AutoCreateBlock
  \/ DeleteAny
  \/ MoveAny
  \/ IndentAny
  \/ OutdentAny
  \/ ToggleMissing

SpecAny == Init /\ [][NextAny]_vars

\* The last call was one that the operation cannot carry out.
FailedCall ==
  \/ /\ last.op \in {"deleteBlock", "moveBlock", "indentBlock", "outdentBlock",
                     "toggleBlockCollapse"}
     /\ last.id \notin DOMAIN prev
  \/ /\ last.op = "indentBlock"
     /\ last.id \in DOMAIN prev
     /\ IndexOf(SortedSiblings(prev, last.id), last.id) = 1
  \/ /\ last.op = "outdentBlock"
     /\ last.id \in DOMAIN prev
     /\ prev[last.id].parentId \notin DOMAIN prev

(***************************************************************************)
(* C20: deleteBlock, moveBlock, indentBlock, outdentBlock and              *)
(* toggleBlockCollapse on an id that no block has, indentBlock on a first  *)
(* sibling and outdentBlock on a block at the top level or with a missing  *)
(* parent return and leave every block as it was; indentBlock and          *)
(* outdentBlock return false.                                              *)
(***************************************************************************)
C20_FailedCallChangesNothing ==
  FailedCall =>
    /\ blocks = prev
    /\ last.op \in {"indentBlock", "outdentBlock"} => ~last.ok

\* outdentBlock was called on a block whose parent is missing, while the
\* store holds another block.
C20_Witness ==
  /\ last.op = "outdentBlock"
  /\ last.id \in DOMAIN prev
  /\ prev[last.id].parentId \notin DOMAIN prev \cup {NullId}
  /\ Cardinality(DOMAIN blocks) >= 2

(***************************************************************************)
(* The outline editor: the blocks of page p1 as the editor's handlers      *)
(* build them, and the flat list it renders.                               *)
(***************************************************************************)
\* addBlockWithChildren for every block of a list, one after the other.
RECURSIVE addBlocks(_, _, _)
addBlocks(bs, ids, skipCollapsed) ==
  IF ids = <<>> THEN <<>>
  ELSE <<Head(ids)>>
         \o (IF skipCollapsed /\ bs[Head(ids)].collapsed THEN <<>>
             ELSE addBlocks(bs, SortByOrder(bs, ChildrenOf(bs, Head(ids))),
                            skipCollapsed))
         \o addBlocks(bs, Tail(ids), skipCollapsed)

\* buildFlatTree without the test of block.collapsed.
buildFlatTreeExpanded(bs) ==
  addBlocks(bs, SortByOrder(bs, {i \in DOMAIN bs : bs[i].parentId = NullId}), FALSE)

\* buildFlatTree(blocks): the ids of the blocks of the result, in its order.
buildFlatTree(bs) ==
  addBlocks(bs, SortByOrder(bs, {i \in DOMAIN bs : bs[i].parentId = NullId}), TRUE)

\* The editor renders page p1.
BuildFlatTree ==
  /\ ret' = buildFlatTree(PageBlocks(blocks, "p1"))
  /\ Done("buildFlatTree", NullId, TRUE)
  /\ prev' = blocks
  /\ UNCHANGED <<blocks, pages, uuid, files, fileCache, now, dirs, vault, visits,
                 timers, procs, parsed, hist>>

NextFlat ==
  \/ CreateBlock
  \/ IndentBlock
  \/ ToggleBlockCollapse
  \/ BuildFlatTree

SpecFlat == Init /\ [][NextFlat]_vars

\* The blocks above block id: its parent, the parent's parent, and so on.
Ancestors(bs, id) == AncestorsOrSelf(bs, bs[id].parentId, Cardinality(DOMAIN bs))

\* The positions of block id in the list.
Positions(list, id) == {k \in 1..Len(list) : list[k] = id}

(***************************************************************************)
(* C21: buildFlatTree returns the visible blocks in depth-first pre-order: *)
(* a block is in the result once if none of its ancestors is collapsed and *)
(* not at all otherwise, it comes after its parent, blocks of one parent   *)
(* come by order, and the visible descendants of a block follow it         *)
(* without a block of another subtree in between.                          *)
(***************************************************************************)
C21_FlatTreeIsVisiblePreorder ==
  last.op = "buildFlatTree" =>
    /\ \A id \in DOMAIN blocks :
         Cardinality(Positions(ret, id)) =
           IF \E a \in Ancestors(blocks, id) : blocks[a].collapsed THEN 0 ELSE 1
    /\ \A k \in 1..Len(ret) :
         /\ ret[k] \in DOMAIN blocks
         /\ blocks[ret[k]].parentId # NullId
              => \E j \in 1..(k - 1) : ret[j] = blocks[ret[k]].parentId
    /\ \A j, k \in 1..Len(ret) :
         (j < k /\ blocks[ret[j]].parentId = blocks[ret[k]].parentId)
           => blocks[ret[j]].order <= blocks[ret[k]].order
    /\ \A i, j, k \in 1..Len(ret) :
         (i < j /\ j < k /\ ret[i] \in Ancestors(blocks, ret[k]))
           => ret[i] \in Ancestors(blocks, ret[j])

\* A rendered page with a hidden block and two visible ones.
C21_Witness ==
  /\ last.op = "buildFlatTree"
  /\ Len(ret) = 2
  /\ Cardinality(DOMAIN blocks) = 3
  /\ blocks[ret[2]].parentId = ret[1]

(***************************************************************************)
(* The change detection cycle step by step, between full synchronizations  *)
(* and edits of the files from outside, no export running.                 *)
(***************************************************************************)
NextCycle ==
  \/ FullSyncAlone
  \/ ExternalEdit
  \/ WatchStart
  \/ WatchStat
  \/ WatchRead
  \/ WatchImport

SpecCycle == InitWith(TRUE) /\ [][NextCycle]_vars

\* The file the cycle in progress is at.
WatchedKey == Head(procs["watch"].listing)

(***************************************************************************)
(* C22: in a change detection cycle a file goes on to be read and imported *)
(* exactly when its modification time is greater than the cached value or  *)
(* no value is cached, so one whose time equals the cached value is passed *)
(* over; an import that does not throw leaves the store as imported and    *)
(* the cached value equal to the time the cycle read, and one that throws  *)
(* leaves the cache as it was.                                             *)
(***************************************************************************)
C22_CycleImportsWhatChanged ==
  [][/\ (last'.op = "watchStat" /\ procs["watch"].listing # <<>>)
          => /\ Pc("watch")' = "read"
                  <=> (\/ WatchedKey \notin DOMAIN fileCache
                       \/ files[WatchedKey].mtime > fileCache[WatchedKey])
             /\ Pc("watch")' # "read"
                  => /\ procs'["watch"].listing = Tail(procs["watch"].listing)
                     /\ blocks' = blocks /\ pages' = pages /\ fileCache' = fileCache
             /\ Pc("watch")' = "read"
                  => procs'["watch"].currentModified = files[WatchedKey].mtime
     /\ last'.op = "watchImport"
          => LET res == procs["watch"].res
                 imp == importPageToDatabase([World EXCEPT !.uuid = @ + res.used], res)
             IN  /\ blocks' = imp.w.blocks
                 /\ imp.ok => /\ WatchedKey \in DOMAIN fileCache'
                              /\ fileCache'[WatchedKey] = procs["watch"].currentModified
                 /\ ~imp.ok => fileCache' = fileCache]_vars

\* A cycle has imported a file written from outside and cached its time,
\* and has passed over a file whose time was the cached one.
C22_Witness ==
  /\ last.op = "watchStat"
  /\ Pc("watch") = "stat"
  /\ \E key \in DOMAIN files :
       /\ files[key].by = "external"
       /\ key \in DOMAIN fileCache
       /\ fileCache[key] = files[key].mtime
  /\ blocks # <<>>


(***************************************************************************)
(* The header of a file edited from outside, and the import of the file.   *)
(***************************************************************************)
\* Somebody edits the header of a page's file with another program: each of
\* title, type and updated is left as it was or deleted, or the type is
\* made "daily".
ExternalHeader ==
  \E path \in DOMAIN files :
    \E title \in {files[path].fm.title, <<>>},
       type \in {files[path].fm.type, "", "daily"},
       updated \in {files[path].fm.updated, 0} :
      /\ now < MaxTime
      /\ files' = [files EXCEPT ![path] =
                     [fm |-> [id |-> @.fm.id, title |-> title, type |-> type,
                              updated |-> updated],
                      body |-> @.body, mtime |-> now + 1, by |-> "external"]]
      /\ now' = now + 1
      /\ last' = [op |-> "externalHeader", id |-> NullId, arg |-> path, ok |-> TRUE]
      /\ prev' = blocks
      /\ hist' = [hist EXCEPT !.prevFiles = files, !.extEver = TRUE]
      /\ UNCHANGED <<blocks, pages, uuid, fileCache, dirs, vault, visits, ret, timers, procs, parsed>>

NextHeader ==
  \/ AutoCreateBlock
  \/ TimerFires
  \/ ExternalHeader
  \/ ImportFile

SpecHeader == InitWith(TRUE) /\ [][NextHeader]_vars

\* C24: when the file imported carries the id of a page of the store, each
\* of title, type and updatedAt of that page becomes what the header says,
\* and stays what the page had when the header does not say it.
C24_AbsentFieldsKeepExisting ==
  [][(last'.op = "importPageToDatabase" /\ files[last'.arg].fm.id \in DOMAIN pages)
       => LET fm == files[last'.arg].fm
              was == pages[fm.id]
              is == pages'[fm.id]
          IN  /\ is.title = IF fm.title # <<>> THEN fm.title ELSE was.title
              /\ is.type = IF fm.type # "" THEN fm.type ELSE was.type
              /\ is.updatedAt = IF fm.updated # 0 THEN fm.updated ELSE was.updatedAt]_vars


(***************************************************************************)
(* detectConflicts.                                                        *)
(***************************************************************************)
detectConflictsOrSame(w, hasVault, pageId) ==
  /\ hasVault
  /\ pageId \in DOMAIN w.pages
  /\ getPageDirectory(w.pages[pageId]) \in w.dirs
  /\ PathOf(w.pages[pageId]) \in DOMAIN w.files
  /\ w.files[PathOf(w.pages[pageId])].mtime >= w.pages[pageId].updatedAt

\* detectConflicts: FALSE without a vault handle, without the page, and
\* when getDirectoryHandle or getFileHandle throws; else whether the file
\* was modified after the page's updatedAt.
detectConflicts(w, hasVault, pageId) ==
  /\ hasVault
  /\ pageId \in DOMAIN w.pages
  /\ getPageDirectory(w.pages[pageId]) \in w.dirs
  /\ PathOf(w.pages[pageId]) \in DOMAIN w.files
  /\ w.files[PathOf(w.pages[pageId])].mtime > w.pages[pageId].updatedAt

\* The ids detectConflicts is called with: the pages and one that is none.
AskedPages == PageIds \cup {"p3"}

DetectConflicts ==
  \E pageId \in AskedPages :
    /\ ret' = <<detectConflicts(World, vault, pageId)>>
    /\ last' = [op |-> "detectConflicts", id |-> NullId, arg |-> pageId, ok |-> TRUE]
    /\ prev' = blocks
    /\ UNCHANGED <<blocks, pages, uuid, files, fileCache, now, dirs, vault, visits, timers, procs, parsed, hist>>

\* fullSync of an engine that has its vault.
DetectSync == vault /\ FullSyncOk

NextDetect ==
  \/ DetectSync
  \/ ExternalHeader
  \/ ImportFile
  \/ DetectConflicts

\* The engine with a vault and the engine never initialized.
SpecDetect == (InitWith(TRUE) \/ InitWith(FALSE)) /\ [][NextDetect]_vars

\* C23: detectConflicts changes nothing of the store, the vault or the
\* engine, and answers TRUE exactly when the engine has a vault, the page
\* exists, its file exists and the file's modification time is later than
\* the page's updatedAt; in every other case it answers FALSE.
C23_DetectConflicts ==
  [][last'.op = "detectConflicts"
       => LET p == last'.arg
          IN  /\ ret' = << /\ vault
                           /\ p \in DOMAIN pages
                           /\ PathOf(pages[p]) \in DOMAIN files
                           /\ files[PathOf(pages[p])].mtime > pages[p].updatedAt >>
              /\ UNCHANGED <<blocks, pages, uuid, files, fileCache, now, dirs,
                             vault, visits, timers, procs>>]_vars

\* A conflict was found.
C23_Witness == last.op = "detectConflicts" /\ ret = <<TRUE>>


(***************************************************************************)
(* What an export writes, and when it reads what it writes.                *)
(***************************************************************************)
\* C25: the file an export leaves is the page and the blocks of the page
\* as the store holds them when the timeout expires and the export runs,
\* whatever they were when triggerPageSync set the timeout.
C25_ExportWritesCurrentState ==
  [][last'.op = "syncToFileSystem"
       => \E p \in PageIds :
            /\ timers'[p] = timers[p] - 1
            /\ PathOf(pages[p]) \in DOMAIN files'
            /\ LET text == pageToMarkdown(p, pages[p], PageBlocks(blocks, p))
                   file == files'[PathOf(pages[p])]
               IN  file.fm = text.fm /\ file.body = text.body]_vars

\* The first export of a burst ran after a later edit of the burst, and the
\* file holds the text of that edit.
C25_Witness ==
  /\ last.op = "syncToFileSystem"
  /\ \E p \in PageIds :
       /\ hist.edits[p] >= 2 /\ hist.runs[p] = 1 /\ timers[p] >= 1
       /\ \E id \in DOMAIN blocks : blocks[id].pageId = p /\ blocks[id].content # <<>>
       /\ files[PathOf(pages[p])].body = pageToMarkdown(p, pages[p], PageBlocks(blocks, p)).body


(***************************************************************************)
(* toggleBlockCollapse and what it leaves alone.                           *)
(***************************************************************************)
\* C26: toggleBlockCollapse(id) inverts the collapsed flag of block id and
\* changes nothing else: the same blocks exist, each with the content,
\* parentId, order and pageId it had, and every other block with the flag
\* it had; a second call gives back the table before the first.
C26_ToggleInvertsOnlyTheFlag ==
  last.op = "toggleBlockCollapse"
    => /\ DOMAIN blocks = DOMAIN prev
       /\ blocks[last.id].collapsed = ~prev[last.id].collapsed
       /\ \A i \in DOMAIN blocks :
            /\ blocks[i].content = prev[i].content
            /\ blocks[i].parentId = prev[i].parentId
            /\ blocks[i].order = prev[i].order
            /\ blocks[i].pageId = prev[i].pageId
            /\ i # last.id => blocks[i].collapsed = prev[i].collapsed
       /\ toggleBlockCollapse(blocks, last.id) = prev

\* A collapsed block was expanded while another block is collapsed.
C26_Witness ==
  /\ last.op = "toggleBlockCollapse"
  /\ ~blocks[last.id].collapsed
  /\ \E i \in DOMAIN blocks : i # last.id /\ blocks[i].collapsed


(***************************************************************************)
(* Pages: deletePage, recordPageVisit and getRecentPages.                  *)
(***************************************************************************)
Without(f, S) == [k \in DOMAIN f \ S |-> f[k]]

deletePageKeepBlocks(w, vs, hasVault, id) ==
  [w |-> [w EXCEPT !.pages = Without(@, {id})], visits |-> vs]

\* deletePage of dbMaintenance: the blocks, the page and the visits of the
\* page go; the page's file goes if there is a vault, the directory and
\* the file (an error of the removal is only logged).
deletePage(w, vs, hasVault, id) ==
  LET gone == {b \in DOMAIN w.blocks : w.blocks[b].pageId = id}
      path == PathOf(w.pages[id])
      removes == /\ id \in DOMAIN w.pages
                 /\ hasVault
                 /\ path[1] \in w.dirs
                 /\ path \in DOMAIN w.files
  IN  [w |-> [w EXCEPT !.blocks = Without(@, gone),
                       !.pages = Without(@, {id}),
                       !.files = IF removes THEN Without(@, {path}) ELSE @],
       visits |-> Without(vs, {v \in DOMAIN vs : vs[v].pageId = id})]

\* deletePage of pageUtils: the blocks and the page go.
deletePageRows(w, vs, hasVault, id) ==
  [w |-> [w EXCEPT !.blocks = Without(@, {b \in DOMAIN @ : @[b].pageId = id}),
                   !.pages = Without(@, {id})],
   visits |-> vs]

PageDone(op, pageId, r) ==
  /\ Becomes(r.w)
  /\ visits' = r.visits
  /\ last' = [op |-> op, id |-> NullId, arg |-> pageId, ok |-> TRUE]
  /\ prev' = blocks
  /\ UNCHANGED <<vault, ret, timers, procs, parsed, hist>>

DeletePage ==
  \E id \in AskedPages : PageDone("deletePage", id, deletePage(World, visits, vault, id))

DeletePageRows ==
  \E id \in AskedPages : PageDone("deletePage", id, deletePageRows(World, visits, vault, id))

\* createBlock on a page of the store.
PageCreateBlock ==
  \E p \in DOMAIN pages :
    /\ uuid < MaxSyncBlocks
    /\ blocks' = createBlock(blocks, UUID(uuid + 1), p, <<"a">>, NullId)
    /\ Done("createBlock", UUID(uuid + 1), TRUE)
    /\ uuid' = uuid + 1
    /\ prev' = blocks
    /\ timers' = triggerPageSync(timers, p)
    /\ hist' = Edited(hist, timers, p, 1)
    /\ UNCHANGED ioVars


\* db.pageVisits.orderBy('visitedAt').reverse().toArray() over the visits
\* in S: latest first, and of two visits of one time the greater key first.
RECURSIVE VisitsByTime(_, _)
VisitsByTime(vs, S) ==
  IF S = {} THEN <<>>
  ELSE LET m == CHOOSE v \in S : \A u \in S \ {v} :
                   \/ vs[v].visitedAt > vs[u].visitedAt
                   \/ (vs[v].visitedAt = vs[u].visitedAt /\ IdLess(u, v))
       IN  <<m>> \o VisitsByTime(vs, S \ {m})

\* recordPageVisit keeps this many visits, the most recent ones.
KeptVisits == 100

trimVisits(vs) ==
  LET all == VisitsByTime(vs, DOMAIN vs)
  IN  IF Len(all) > KeptVisits
      THEN Without(vs, {all[i] : i \in (KeptVisits + 1)..Len(all)})
      ELSE vs

recordPageVisitAdd(vs, pageId, time, id) ==
  [visits |-> trimVisits(vs @@ (id :> [pageId |-> pageId, visitedAt |-> time])),
   used |-> 1]

\* recordPageVisit(pageId) at time `time`, id being the next random UUID:
\* [visits, used].  Of the visits the page has, the latest one (of equal
\* times the one with the least key) gets the time and the others go; a
\* page without a visit gets one.
recordPageVisit(vs, pageId, time, id) ==
  LET existing == {v \in DOMAIN vs : vs[v].pageId = pageId}
      latest == CHOOSE v \in existing : \A u \in existing \ {v} :
                  \/ vs[v].visitedAt > vs[u].visitedAt
                  \/ (vs[v].visitedAt = vs[u].visitedAt /\ IdLess(v, u))
  IN  IF existing # {}
      THEN [visits |-> trimVisits([Without(vs, existing \ {latest})
                                     EXCEPT ![latest].visitedAt = time]),
            used |-> 0]
      ELSE [visits |-> trimVisits(vs @@ (id :> [pageId |-> pageId, visitedAt |-> time])),
            used |-> 1]

\* The loop of getRecentPages over the visits left, seen being the pages
\* met and acc the visits taken.
RECURSIVE uniqueVisits(_, _, _, _, _)
uniqueVisits(vs, left, seen, acc, limit) ==
  IF left = <<>> THEN acc
  ELSE IF vs[Head(left)].pageId \in seen
  THEN uniqueVisits(vs, Tail(left), seen, acc, limit)
  ELSE IF Len(acc) + 1 >= limit THEN Append(acc, Head(left))
  ELSE uniqueVisits(vs, Tail(left), seen \cup {vs[Head(left)].pageId},
                    Append(acc, Head(left)), limit)

\* getRecentPages(limit): the ids of the pages returned, in their order.
getRecentPages(vs, pgs, limit) ==
  LET taken == uniqueVisits(vs, VisitsByTime(vs, DOMAIN vs), {}, <<>>, limit)
      ids == [i \in 1..Len(taken) |-> vs[taken[i]].pageId]
  IN  SelectSeq(ids, LAMBDA p : p \in DOMAIN pgs)

\* The page opened is recorded; the clock may have moved since the last
\* call.
RecordPageVisit ==
  \E pageId \in DOMAIN pages, time \in {now, now + 1} :
    LET r == recordPageVisit(visits, pageId, time, UUID(uuid + 1))
    IN  /\ time <= MaxTime
        /\ uuid + r.used <= MaxUuid
        /\ visits' = r.visits
        /\ uuid' = uuid + r.used
        /\ now' = time
        /\ last' = [op |-> "recordPageVisit", id |-> NullId, arg |-> pageId, ok |-> TRUE]
        /\ prev' = blocks
        /\ UNCHANGED <<blocks, pages, files, fileCache, dirs, vault, ret, timers, procs, parsed, hist>>

\* The limits getRecentPages is called with.
Limits == 0..2

GetRecentPages ==
  \E limit \in Limits :
    /\ ret' = getRecentPages(visits, pages, limit)
    /\ last' = [op |-> "getRecentPages", id |-> NullId, arg |-> limit, ok |-> TRUE]
    /\ prev' = blocks
    /\ UNCHANGED <<blocks, pages, uuid, files, fileCache, now, dirs, vault, visits, timers, procs, parsed, hist>>

NextPages ==
  \/ PageCreateBlock
  \/ TimerFires
  \/ DeletePage
  \/ DeletePageRows

SpecPages == InitWith(TRUE) /\ [][NextPages]_vars

NextVisits ==
  \/ RecordPageVisit
  \/ GetRecentPages
  \/ DeletePage
  \/ DeletePageRows

SpecVisits == Init /\ [][NextVisits]_vars

\* C27: deletePage(id) leaves neither the page nor a block of the page;
\* the other pages and the blocks of the other pages are as they were, and
\* if every block had its page before the call, every block has it after.
C27_DeletePageRemovesPageAndBlocks ==
  [][last'.op = "deletePage"
       => LET id == last'.arg
          IN  /\ id \notin DOMAIN pages'
              /\ \A b \in DOMAIN blocks' : blocks'[b].pageId # id
              /\ pages' = Without(pages, {id})
              /\ blocks' = Without(blocks, {b \in DOMAIN blocks : blocks[b].pageId = id})
              /\ (\A b \in DOMAIN blocks : blocks[b].pageId \in DOMAIN pages)
                   => \A b \in DOMAIN blocks' : blocks'[b].pageId \in DOMAIN pages']_vars

\* A page with a block was deleted and the block of another page stays.
C27_Witness ==
  /\ last.op = "deletePage"
  /\ \E b \in DOMAIN prev : prev[b].pageId = last.arg
  /\ \E b \in DOMAIN blocks : blocks[b].pageId \in DOMAIN pages


\* The visits of page p.
VisitsOf(vs, p) == {v \in DOMAIN vs : vs[v].pageId = p}

\* C28: with the calls of recordPageVisit made one after the other, no page
\* ever has two visits, and the call for a page that has a visit leaves
\* that visit with the time of the call, which is not before the time the
\* visit had.
C28_OneVisitPerPage ==
  [][/\ \A p \in PageIds : Cardinality(VisitsOf(visits', p)) <= 1
     /\ (last'.op = "recordPageVisit" /\ VisitsOf(visits, last'.arg) # {})
          => /\ VisitsOf(visits', last'.arg) = VisitsOf(visits, last'.arg)
             /\ \A v \in VisitsOf(visits, last'.arg) :
                  /\ visits'[v].visitedAt = now'
                  /\ visits'[v].visitedAt >= visits[v].visitedAt]_vars

\* A page was visited again after another page had been visited: the older
\* record holds the later time.
C28_Witness ==
  /\ last.op = "recordPageVisit"
  /\ \E v \in VisitsOf(visits, last.arg), u \in DOMAIN visits :
       IdLess(v, u) /\ visits[v].visitedAt > visits[u].visitedAt

\* C29: getRecentPages(limit) returns pages that have a visit, none of them
\* twice, a page visited later before a page visited earlier, and not more
\* pages than limit.
C29_RecentPagesWithinLimit ==
  last.op = "getRecentPages"
    => /\ Len(ret) <= last.arg
       /\ \A i, j \in 1..Len(ret) : i # j => ret[i] # ret[j]
       /\ \A i \in 1..Len(ret) : VisitsOf(visits, ret[i]) # {}
       /\ \A i, j \in 1..Len(ret) :
            i < j => \E v \in VisitsOf(visits, ret[i]) :
                       \A u \in VisitsOf(visits, ret[j]) :
                         visits[v].visitedAt >= visits[u].visitedAt


(***************************************************************************)
(* initializeDatabase, called by two callers of one window; each advances  *)
(* from one await to the next.  procs.lock = [isInitializing,              *)
(* isInitialized], procs[c] = [pc, pageId] for a caller c.                 *)
(***************************************************************************)
InitCallers == {"a", "b"}

\* The welcome page gets this many blocks.
WelcomeBlocks == 7

WelcomeTitle == <<"welcome">>

Lock == IF "lock" \in DOMAIN procs THEN procs["lock"]
        ELSE [isInitializing |-> FALSE, isInitialized |-> FALSE]

lockHeldNever(lock) == FALSE

\* if (isInitializing || isInitialized) return;
lockHeld(lock) == lock.isInitializing \/ lock.isInitialized

\* welcomeBlocks: top level blocks of the page, orders 0, 1, ..., the ids
\* being the random UUIDs after u.
welcomeBlocks(pageId, u) ==
  [k \in 1..WelcomeBlocks |->
     [id |-> UUID(u + k), content |-> <<"w", ToString(k)>>, parentId |-> NullId,
      pageId |-> pageId, order |-> k - 1, collapsed |-> FALSE]]

InitStep(op, c, pc, pageId, lock) ==
  /\ procs' = ("lock" :> lock) @@ (c :> [pc |-> pc, pageId |-> pageId]) @@ procs
  /\ last' = [op |-> op, id |-> NullId, arg |-> c, ok |-> TRUE]
  /\ prev' = blocks
  /\ UNCHANGED <<files, fileCache, now, dirs, vault, visits, ret, timers, parsed, hist>>

\* The call starts: it returns at once under the lock, else it takes the
\* lock and asks for the number of pages.
InitEnter ==
  \E c \in InitCallers :
    /\ Pc(c) = "idle"
    /\ IF lockHeld(Lock)
       THEN InitStep("initializeDatabase", c, "done", "", Lock)
       ELSE InitStep("initializeDatabase", c, "count", "",
                     [Lock EXCEPT !.isInitializing = TRUE])
    /\ UNCHANGED <<blocks, pages, uuid>>

\* db.pages.count() answers: with pages in the store the call releases the
\* lock and returns, without any it draws the id of the welcome page (no
\* more than MaxUuid ids are drawn for pages).
InitCount ==
  \E c \in InitCallers :
    /\ Pc(c) = "count"
    /\ pages = <<>> => uuid < MaxUuid
    /\ IF pages = <<>>
       THEN /\ InitStep("initCount", c, "addPage", ToString(uuid + 1), Lock)
            /\ uuid' = uuid + 1
       ELSE /\ InitStep("initCount", c, "done", "",
                        [isInitializing |-> FALSE, isInitialized |-> TRUE])
            /\ uuid' = uuid
    /\ UNCHANGED <<blocks, pages>>

\* db.pages.add(welcome page)
InitAddPage ==
  \E c \in InitCallers :
    /\ Pc(c) = "addPage"
    /\ pages' = (procs[c].pageId :> [title |-> WelcomeTitle, type |-> "note",
                                    updatedAt |-> now]) @@ pages
    /\ InitStep("initAddPage", c, "addBlocks", procs[c].pageId, Lock)
    /\ UNCHANGED <<blocks, uuid>>

\* db.blocks.bulkAdd(welcomeBlocks)
InitAddBlocks ==
  \E c \in InitCallers :
    /\ Pc(c) = "addBlocks"
    /\ blocks' = bulkAdd(blocks, welcomeBlocks(procs[c].pageId, uuid)).blocks
    /\ uuid' = uuid + WelcomeBlocks
    /\ InitStep("initAddBlocks", c, "finish", procs[c].pageId, Lock)
    /\ UNCHANGED pages

\* isInitializing = false; isInitialized = true
InitFinish ==
  \E c \in InitCallers :
    /\ Pc(c) = "finish"
    /\ InitStep("initFinish", c, "done", "",
                [isInitializing |-> FALSE, isInitialized |-> TRUE])
    /\ UNCHANGED <<blocks, pages, uuid>>

\* The window is loaded again: the calls in progress are gone and the
\* module starts with both flags false; the database stays.
Reload ==
  /\ procs # <<>>
  /\ procs' = <<>>
  /\ last' = [op |-> "reload", id |-> NullId, arg |-> NullId, ok |-> TRUE]
  /\ prev' = blocks
  /\ UNCHANGED <<blocks, pages, uuid, files, fileCache, now, dirs, vault, visits, ret, timers, parsed, hist>>

NextInit ==
  \/ InitEnter
  \/ InitCount
  \/ InitAddPage
  \/ InitAddBlocks
  \/ InitFinish
  \/ Reload

\* An empty database, or one with pages, before the first call.
InitEmpty ==
  /\ blocks = <<>>
  /\ pages \in {<<>>, InitPages}
  /\ uuid = 0
  /\ last = [op |-> "init", id |-> NullId, arg |-> NullId, ok |-> TRUE]
  /\ prev = <<>>
  /\ files = <<>>
  /\ fileCache = <<>>
  /\ now = 1
  /\ dirs = {}
  /\ parsed = <<>>
  /\ hist = InitHist
  /\ vault = FALSE
  /\ visits = <<>>
  /\ ret = <<>>
  /\ timers = [p \in PageIds |-> 0]
  /\ procs = <<>>

SpecInit == InitEmpty /\ [][NextInit]_vars

WelcomePages == {p \in DOMAIN pages : pages[p].title = WelcomeTitle}

\* C30: however the calls of initializeDatabase of a window overlap or
\* follow each other, the store holds at most one welcome page and at most
\* one set of welcome blocks, and at most one call is past the lock.
C30_WelcomeCreatedOnce ==
  /\ Cardinality(WelcomePages) <= 1
  /\ Cardinality(DOMAIN blocks) <= WelcomeBlocks
  /\ Cardinality({c \in InitCallers : Pc(c) \notin {"idle", "done"}}) <= 1

\* The second call returned under the lock while the first had added the
\* page and not yet the blocks.
C30_Witness ==
  /\ Cardinality(WelcomePages) = 1
  /\ blocks = <<>>
  /\ \E c, d \in InitCallers : Pc(c) = "addBlocks" /\ Pc(d) = "done"


(***************************************************************************)
(* parseBlocks on list items of any indentation.                           *)
(***************************************************************************)
\* A body has at most MaxItems list items, each indented by at most
\* MaxIndent blanks.
MaxItems == 3

MaxIndent == 4

\* The body whose i-th line is a list item with text "a" after indents[i]
\* blanks.
ItemLines(indents) ==
  Join([i \in 1..Len(indents) |-> Spaces(indents[i]) \o <<"-", " ", "a">>])

\* One more list item is put at the end of the body parsed last (last.arg
\* holds the indentations of its items) and the body is parsed.
ParseBlocks ==
  \E n \in 0..MaxIndent :
    /\ Len(last.arg) < MaxItems
    /\ parsed' = parseBlocks(ItemLines(Append(last.arg, n)), "p1", uuid)
    /\ last' = [op |-> "parseBlocks", id |-> NullId, arg |-> Append(last.arg, n),
                ok |-> TRUE]
    /\ prev' = blocks
    /\ UNCHANGED <<blocks, pages, uuid, files, fileCache, now, dirs, vault, visits, ret, timers, procs, hist>>

NextParse == ParseBlocks

SpecParse == Init /\ [][NextParse]_vars

\* The items before item i that are less deep than item i.
Shallower(indents, i) ==
  {j \in 1..(i - 1) : indents[j] \div 2 < indents[i] \div 2}

\* C31: parseBlocks gives one block per list item; the parent of a block is
\* the nearest earlier block of less depth, or none if there is no such
\* block; a parent comes before its child; the order of a block is the
\* number of earlier blocks with the same parent.
C31_ParseBlocksBuildsTree ==
  last.op = "parseBlocks"
    => LET indents == last.arg
           bs == parsed.blocks
       IN  /\ Len(bs) = Len(indents)
           /\ \A i \in 1..Len(bs) :
                /\ bs[i].parentId =
                     IF Shallower(indents, i) = {} THEN NullId
                     ELSE bs[CHOOSE j \in Shallower(indents, i) :
                               \A k \in Shallower(indents, i) : k <= j].id
                /\ bs[i].parentId # NullId
                     => \E j \in 1..(i - 1) : bs[j].id = bs[i].parentId
                /\ bs[i].order = Cardinality({j \in 1..(i - 1) :
                                                bs[j].parentId = bs[i].parentId})

\* The first item is indented, the second is two levels below the third's
\* level, and the third went back under no parent.
C31_Witness ==
  /\ last.op = "parseBlocks"
  /\ Len(last.arg) = 3
  /\ last.arg[1] = 2 /\ last.arg[2] = 4 /\ last.arg[3] = 0
  /\ parsed.blocks[2].parentId = parsed.blocks[1].id
  /\ parsed.blocks[3].parentId = NullId /\ parsed.blocks[3].order = 1


(***************************************************************************)
(* importPageToDatabase in the two steps its awaits divide the replacement *)
(* of the blocks into, with an export in progress at the same time.        *)
(***************************************************************************)
\* importPageToDatabase up to the end of db.blocks.where({ pageId }).delete():
\* the page is updated or added and the blocks of the page are gone.
importDeleted(w, res) ==
  [importPageToDatabase(w, [res EXCEPT !.blocks = <<>>]).w EXCEPT !.uuid = @ + res.used]

\* db.blocks.bulkAdd(blocks): [w, ok].
importAdded(w, res) ==
  LET added == IF res.blocks # <<>> THEN bulkAdd(w.blocks, res.blocks)
               ELSE [blocks |-> w.blocks, ok |-> TRUE]
  IN  [w |-> [w EXCEPT !.blocks = added.blocks], ok |-> added.ok]

\* The page is written and its old blocks are deleted; old: their ids.
WatchDelete ==
  /\ Pc("watch") = "import"
  /\ Within(importDeleted(World, procs["watch"].res))
  /\ Put("watch", [pc |-> "add", listing |-> procs["watch"].listing,
                   currentModified |-> procs["watch"].currentModified,
                   res |-> procs["watch"].res, by |-> procs["watch"].by,
                   old |-> DOMAIN PageBlocks(blocks, procs["watch"].res.page.id)])
  /\ Step("watchDelete")
  /\ UNCHANGED <<timers, hist>>

\* The parsed blocks are added, then fileCache.set.
WatchAdd ==
  /\ Pc("watch") = "add"
  /\ Becomes(checkCached(Head(procs["watch"].listing), procs["watch"].currentModified,
                         importAdded(World, procs["watch"].res)))
  /\ Put("watch", [pc |-> "stat", listing |-> Tail(procs["watch"].listing),
                   currentModified |-> procs["watch"].currentModified,
                   res |-> <<>>, by |-> procs["watch"].by])
  /\ hist' = [hist EXCEPT !.importedBy = procs["watch"].by]
  /\ Step("watchAdd")
  /\ UNCHANGED timers

NextAtomic ==
  \/ SyncCreateBlock
  \/ FullSyncAlone
  \/ ExternalEdit
  \/ ExportRead
  \/ ExportWrite
  \/ ExportStat
  \/ ExportCache
  \/ WatchStart
  \/ WatchStat
  \/ WatchRead
  \/ WatchDelete
  \/ WatchAdd

SpecAtomic == InitWith(TRUE) /\ [][NextAtomic]_vars

\* C32: an export that reads the store while an import of the same page
\* has deleted the old blocks and not yet added the parsed ones still
\* reads every block that the page had before the import and has after it.
C32_ImportAtomicForExports ==
  [][(last'.op = "exportRead" /\ Pc("watch") = "add"
        /\ procs'["export"].job.pageId = procs["watch"].res.page.id)
       => \A i \in 1..Len(procs["watch"].res.blocks) :
            procs["watch"].res.blocks[i].id \in procs["watch"].old
              => procs["watch"].res.blocks[i].id \in DOMAIN procs'["export"].job.rows]_vars


(***************************************************************************)
(* The cache of modification times after fullSync.                         *)
(***************************************************************************)
\* Another program renames a file of the vault to z.md; the modification
\* time stays.
ExternalRename ==
  \E path \in DOMAIN files :
    LET to == <<path[1], <<"z", ".md">>>>
    IN  /\ to \notin DOMAIN files
        /\ files' = (to :> [files[path] EXCEPT !.by = "external"]) @@ Without(files, {path})
        /\ last' = [op |-> "externalRename", id |-> NullId, arg |-> path, ok |-> TRUE]
        /\ prev' = blocks
        /\ hist' = [hist EXCEPT !.prevFiles = files, !.extEver = TRUE]
        /\ UNCHANGED <<blocks, pages, uuid, fileCache, now, dirs, vault, visits, ret, timers, procs, parsed>>

NextCached ==
  \/ AutoCreateBlock
  \/ TimerFires
  \/ ExternalRename
  \/ FullSyncOk
  \/ CheckForChanges

SpecCached == InitWith(TRUE) /\ [][NextCached]_vars

\* C33: when fullSync has completed, every file it imported is in the
\* cache with the modification time the file has, so that the next cycle
\* finds nothing to import.
C33_FullSyncCachesWhatItImported ==
  (last.op = "fullSync" /\ last.ok)
    => \A key \in hist.imports :
         key \in DOMAIN files
           => key \in DOMAIN fileCache /\ fileCache[key] = files[key].mtime


(***************************************************************************)
(* resolveConflict and what detectConflicts answers after it.              *)
(***************************************************************************)
\* resolveConflict: 'file' runs syncFromFileSystem, 'database' runs
\* syncToFileSystem(pageId); 'merge' only warns.
resolveConflict(w, listing, pageId, strategy) ==
  IF strategy = "file" THEN syncFromFileSystem(w, listing, {})
  ELSE IF strategy = "database" THEN syncToFileSystem(w, pageId)
  ELSE w

ResolveConflict ==
  \E pageId \in PageIds, strategy \in {"file", "database", "merge"},
     listing \in Listings(files) :
    /\ Within(resolveConflict(World, listing, pageId, strategy))
    /\ last' = [op |-> IF strategy = "merge" THEN "resolveMerge" ELSE "resolveConflict",
                id |-> NullId, arg |-> pageId, ok |-> TRUE]
    /\ prev' = blocks
    /\ hist' = [hist EXCEPT !.prevFiles = files]
    /\ UNCHANGED <<vault, visits, ret, timers, procs, parsed>>

NextResolve ==
  \/ AutoCreateBlock
  \/ ExternalEdit
  \/ ResolveConflict
  \/ DetectConflicts

SpecResolve == InitWith(TRUE) /\ [][NextResolve]_vars

\* C34: detectConflicts(pageId) called right after resolveConflict(pageId,
\* 'file') or resolveConflict(pageId, 'database'), nothing having been
\* written from outside in between, answers FALSE.
C34_NoConflictAfterResolve ==
  [][(last.op = "resolveConflict" /\ last'.op = "detectConflicts"
        /\ last'.arg = last.arg)
       => ret' = <<FALSE>>]_vars


(***************************************************************************)
(* An import that fails after the old blocks were deleted.                 *)
(***************************************************************************)
\* C35: when importPageToDatabase has thrown, the blocks the page had
\* before the call are in the store as they were.
C35_FailedImportKeepsBlocks ==
  (last.op = "importPageToDatabase" /\ ~last.ok)
    => \A b \in DOMAIN prev :
         prev[b].pageId = parsed.page.id
           => b \in DOMAIN blocks /\ blocks[b] = prev[b]


(***************************************************************************)
(* Pages renamed and deleted while the vault is synchronized.              *)
(***************************************************************************)
\* The titles a page is renamed to.
NewTitles == {<<"z">>}

\* updatePageTitle: db.pages.update; no page, no change.
updatePageTitle(w, id, title) ==
  IF id \notin DOMAIN w.pages THEN w
  ELSE [w EXCEPT !.pages[id].title = title, !.pages[id].updatedAt = w.now]

UpdatePageTitle ==
  \E id \in DOMAIN pages, title \in NewTitles :
    /\ pages[id].title # title
    /\ timers[id] < MaxPending
    /\ Becomes(updatePageTitle(World, id, title))
    /\ timers' = triggerPageSync(timers, id)
    /\ last' = [op |-> "updatePageTitle", id |-> NullId, arg |-> id, ok |-> TRUE]
    /\ prev' = blocks
    /\ hist' = Edited(hist, timers, id, 1)
    /\ UNCHANGED <<vault, visits, ret, procs, parsed>>

NextDeleted ==
  \/ UpdatePageTitle
  \/ TimerFires
  \/ DeletePage
  \/ FullSyncOk
  \/ CheckForChanges

SpecDeleted == InitWith(TRUE) /\ [][NextDeleted]_vars

\* C36: a page that deletePage removed is not in the store again after any
\* later fullSync or change detection cycle.
C36_DeletedPageStaysDeleted ==
  [][\A p \in PageIds : p \notin DOMAIN pages => p \notin DOMAIN pages']_vars


(***************************************************************************)
(* deleteBlock in steps, next to an indentBlock or outdentBlock in steps.  *)
(***************************************************************************)
\* deleteBlock, one database call per step.  pr.stack holds the calls of
\* deleteBlock in progress, innermost last: [id, kids, read], kids being
\* the children still to be deleted once they were read.
deleteStep(bs, pr) ==
  LET top == pr.stack[Len(pr.stack)]
  IN
  CASE pr.pc = "get" ->
         IF pr.id \notin DOMAIN bs THEN Returns(bs, pr, FALSE)
         ELSE [bs |-> bs,
               pr |-> [pr EXCEPT !.pc = "kids",
                                 !.stack = <<[id |-> pr.id, kids |-> <<>>,
                                              read |-> FALSE]>>]]
    [] pr.pc = "kids" /\ ~top.read ->
         [bs |-> bs,
          pr |-> [pr EXCEPT !.stack[Len(pr.stack)] =
                    [id |-> top.id, kids |-> SortByOrder(bs, ChildrenOf(bs, top.id)),
                     read |-> TRUE]]]
    [] pr.pc = "kids" /\ top.read /\ top.kids # <<>> ->
         LET rest == [pr.stack EXCEPT ![Len(pr.stack)].kids = Tail(@)]
         IN  [bs |-> bs,
              pr |-> [pr EXCEPT
                        !.stack = IF Head(top.kids) \in DOMAIN bs
                                  THEN Append(rest, [id |-> Head(top.kids),
                                                     kids |-> <<>>, read |-> FALSE])
                                  ELSE rest]]
    [] pr.pc = "kids" /\ top.read /\ top.kids = <<>> ->
         LET left == [i \in DOMAIN bs \ {top.id} |-> bs[i]]
         IN  IF Len(pr.stack) = 1 THEN Returns(left, [pr EXCEPT !.stack = <<>>], TRUE)
             ELSE [bs |-> left,
                   pr |-> [pr EXCEPT !.stack = SubSeq(@, 1, Len(@) - 1)]]

treeStep(bs, pr) == IF pr.op = "deleteBlock" THEN deleteStep(bs, pr) ELSE opStep(bs, pr)

NewTreeCall(op, id) == [stack |-> <<>>] @@ NewCall(op, id)

\* One handler deletes a block while another indents or outdents one.
StartTreeCalls ==
  /\ procs = <<>>
  /\ \E opB \in StructuralOps, idA, idB \in DOMAIN blocks :
       /\ idA # idB
       /\ procs' = ("a" :> NewTreeCall("deleteBlock", idA)) @@ ("b" :> NewTreeCall(opB, idB))
  /\ last' = [op |-> "start", id |-> NullId, arg |-> NullId, ok |-> TRUE]
  /\ prev' = blocks
  /\ UNCHANGED <<blocks, pages, uuid, files, fileCache, now, dirs, vault, visits, ret, timers,
                 parsed, hist>>

TreeCallStep ==
  \E c \in Calls :
    /\ c \in DOMAIN procs
    /\ procs[c].pc # "done"
    /\ Advance(c, treeStep(blocks, procs[c]))
    /\ UNCHANGED <<pages, uuid, files, fileCache, now, dirs, vault, visits, ret, timers,
                   parsed, hist, prev>>

NextOrphans ==
  \/ ConcCreateBlock
  \/ StartTreeCalls
  \/ TreeCallStep

SpecOrphans == Init /\ [][NextOrphans]_vars

\* C37: when the calls have returned, the parent of every block that has
\* one is a block of the store, on the same page.
C37_NoOrphanedBlocks ==
  (procs # <<>> /\ \A c \in Calls : procs[c].pc = "done")
    => \A b \in DOMAIN blocks :
         blocks[b].parentId # NullId
           => /\ blocks[b].parentId \in DOMAIN blocks
              /\ blocks[blocks[b].parentId].pageId = blocks[b].pageId

(***************************************************************************)
(* The interval timer of startWatching calls checkForChanges every         *)
(* WATCH_INTERVAL whether or not the call before has returned.  Each call  *)
(* in flight has its own position and local variables:                     *)
(* [pc, listing, currentModified, res, by, done], done = the versions      *)
(* <<key, lastModified>> it has imported.                                  *)
(***************************************************************************)
Cycles == {"w1", "w2"}

InFlight == {c \in Cycles : Pc(c) # "idle"}

\* The timer fires: a call of checkForChanges begins and lists the files.
CycleFires ==
  \E c \in Cycles :
    /\ Pc(c) = "idle"
    /\ vault
    /\ {"pages", "journals"} \subseteq dirs
    /\ \E listing \in Listings(files) :
         Put(c, [pc |-> "stat", listing |-> listing, currentModified |-> 0,
                 res |-> <<>>, by |-> "", done |-> {}])
    /\ Step("cycleFires")
    /\ UNCHANGED <<blocks, pages, uuid, files, fileCache, now, dirs, timers, hist>>

\* getFileModifiedTime and fileCache.get of the next file of the listing.
CycleStat ==
  \E c \in InFlight :
    /\ Pc(c) = "stat"
    /\ LET wp == procs[c]
       IN  Put(c, IF wp.listing = <<>> THEN [wp EXCEPT !.pc = "idle"]
                  ELSE IF Head(wp.listing) \notin DOMAIN files
                  THEN [wp EXCEPT !.listing = Tail(@)]
                  ELSE IF fileChanged(World, Head(wp.listing))
                  THEN [wp EXCEPT !.pc = "read",
                                  !.currentModified = files[Head(wp.listing)].mtime]
                  ELSE [wp EXCEPT !.listing = Tail(@)])
    /\ Step("cycleStat")
    /\ UNCHANGED <<blocks, pages, uuid, files, fileCache, now, dirs, timers, hist>>

\* readPageFile: the file as it is now, parsed; the ids of its blocks are
\* made here.
CycleRead ==
  \E c \in InFlight :
    /\ Pc(c) = "read"
    /\ LET key == Head(procs[c].listing)
           res == markdownToPage(files[key], key[2], now, uuid)
       IN  /\ uuid + res.used <= MaxUuid
           /\ uuid' = uuid + res.used
           /\ Put(c, [procs[c] EXCEPT !.pc = "import", !.res = res,
                                      !.by = files[key].by])
    /\ Step("cycleRead")
    /\ UNCHANGED <<blocks, pages, files, fileCache, now, dirs, timers, hist>>

\* importPageToDatabase, then fileCache.set.
CycleImport ==
  \E c \in InFlight :
    /\ Pc(c) = "import"
    /\ LET wp == procs[c]
           key == Head(wp.listing)
       IN  /\ Within(checkCached(key, wp.currentModified,
                                 importPageToDatabase(World, wp.res)))
           /\ Put(c, [wp EXCEPT !.pc = "stat", !.listing = Tail(@), !.res = <<>>,
                                !.done = @ \cup {<<key, wp.currentModified>>}])
    /\ hist' = [hist EXCEPT !.importedBy = procs[c].by]
    /\ Step("cycleImport")
    /\ UNCHANGED timers

\* fullSync while no cycle is in flight.
CycleSync ==
  /\ InFlight = {}
  /\ FullSyncOk

NextOverlap ==
  \/ CycleSync
  \/ ExternalEdit
  \/ CycleFires
  \/ CycleStat
  \/ CycleRead
  \/ CycleImport

SpecOverlap == InitWith(TRUE) /\ [][NextOverlap]_vars

\* No version of a file has been imported by two cycles in flight.
NoDoubleImport ==
  \A c \in InFlight, d \in InFlight :
    c # d => procs[c].done \cap procs[d].done = {}

\* C38: at most one call of checkForChanges is in flight, and no version of
\* a file is imported by two cycles that overlap.
C38_OneCycleInFlight ==
  /\ Cardinality(InFlight) <= 1
  /\ NoDoubleImport

(***************************************************************************)
(* Pages made by createPage and exported by the debounced                  *)
(* syncToFileSystem.  The ids of new pages are the free ones of PageIds,   *)
(* in order.                                                               *)
(***************************************************************************)
CreateTitles == {<<"a", " ", "b">>, <<"a", "-", "b">>, <<"a", "?">>, <<"a">>}

createPage(w, id, title, type) ==
  [w EXCEPT !.pages = (id :> [title |-> title, type |-> type, updatedAt |-> w.now]) @@ @]

CreatePage ==
  \E id \in PageIds, title \in CreateTitles, type \in {"note", "daily"} :
    /\ id \notin DOMAIN pages
    /\ id = "p2" => "p1" \in DOMAIN pages
    /\ Becomes(createPage(World, id, title, type))
    /\ timers' = triggerPageSync(timers, id)
    /\ last' = [op |-> "createPage", id |-> NullId, arg |-> id, ok |-> TRUE]
    /\ prev' = blocks
    /\ hist' = Edited(hist, timers, id, 1)
    /\ UNCHANGED <<vault, visits, ret, procs, parsed>>

InitNoPages ==
  /\ blocks = <<>>
  /\ pages = <<>>
  /\ uuid = 0
  /\ last = [op |-> "init", id |-> NullId, arg |-> NullId, ok |-> TRUE]
  /\ prev = <<>>
  /\ files = <<>>
  /\ fileCache = <<>>
  /\ now = 1
  /\ dirs = {}
  /\ parsed = <<>>
  /\ hist = InitHist
  /\ vault = TRUE
  /\ visits = <<>>
  /\ ret = <<>>
  /\ timers = [p \in PageIds |-> 0]
  /\ procs = <<>>

NextTitles ==
  \/ CreatePage
  \/ UpdatePageTitle
  \/ TimerFires

SpecTitles == InitNoPages /\ [][NextTitles]_vars

\* Two pages of the store with different ids have different paths.
DistinctPaths ==
  \A p \in DOMAIN pages, q \in DOMAIN pages :
    p # q => PathOf(pages[p]) # PathOf(pages[q])

\* An export leaves every file that holds another page.
NoOverwrite ==
  [][last'.op = "syncToFileSystem"
       => \A path \in DOMAIN files :
            /\ path \in DOMAIN files'
            /\ files'[path].fm.id = files[path].fm.id]_vars

\* C39: two pages of the store with different ids are exported to different
\* <<directory, file name>> pairs, and no export replaces the file of
\* another page.
C39_DistinctPagesDistinctFiles ==
  [][/\ DistinctPaths'
     /\ last'.op = "syncToFileSystem"
          => \A path \in DOMAIN files :
               /\ path \in DOMAIN files'
               /\ files'[path].fm.id = files[path].fm.id]_vars

====
